---- MODULE Spec2Model ----
(***************************************************************************)
(* Verification model of the browser agent's control components:           *)
(*   - AgentOrchestrator (orchestrator.py): the Planner -> Browser ->      *)
(*     Critique loop of _run_multi_agent with its termination rules, and   *)
(*     the single call of _run_single_agent;                               *)
(*   - CircuitBreaker (error_handling.py): closed / open / half-open;      *)
(*   - with_retry / with_async_retry (error_handling.py): the bounded      *)
(*     retry loops and RetryConfig.get_delay;                              *)
(*   - AdaptiveRetryManager.find_element (adaptive_retry.py): the ordered  *)
(*     strategies that locate an element, and the manager's statistics;   *)
(*   - smart_click (tools/interactions.py): locating, scrolling to and     *)
(*     clicking an element, and the exception it raises;                   *)
(*   - PerformanceMonitor (performance.py): start_monitoring,              *)
(*     stop_monitoring and the background _monitor_loop threads.           *)
(* Each component has its own specification: SpecOrch and SpecSingle for   *)
(* the two modes of run(), SpecCB and SpecCBOverlap for the breaker with   *)
(* one call at a time and with overlapping calls, SpecRetry, SpecRetryPair *)
(* and SpecDelay for the retry wrappers and their delays, SpecResolve,     *)
(* SpecClick and SpecMonitor.  A specification leaves the variables of     *)
(* the other components at their initial values.                           *)
(***************************************************************************)
EXTENDS Integers, Sequences, FiniteSets, TLC

VARIABLES
    \* ---- CircuitBreaker: wrapper calls that overlap ----
    inflight,           \* per caller: where its wrapper call stands
    \* ---- PerformanceMonitor: fields ----
    monitoring,         \* self.monitoring
    monitor_thread,     \* self.monitor_thread (a thread number, or NoThread)
    metrics_history,    \* self.metrics_history, by the thread that appended
    \* ---- PerformanceMonitor: the threads ----
    threads,            \* per thread created: where its _monitor_loop stands
    appended,           \* number of metrics_history.append calls so far
    pmPc,               \* the caller: between calls, or inside join
    pmLast,             \* how the caller's latest call went
    \* ---- AgentOrchestrator: fields ----
    max_iterations,     \* self.max_iterations (constructor argument)
    iteration_counter,  \* self.iteration_counter
    terminate,          \* self.terminate
    current_plan,       \* self.current_plan
    use_multi_agent,    \* self.use_multi_agent (constructor argument)
    message_histories,  \* self.message_histories
    cumulative_tokens,  \* self.cumulative_tokens
    user_prompt,        \* the user_prompt of the latest browser_agent.run call
    \* ---- the collaborators, as the run finds them ----
    usage_of,           \* per role, the _usage attribute of the agent's responses
    user_query,         \* the task the caller passes to run()
    \* ---- _run_multi_agent: locals and position ----
    pc,                 \* position of the run coroutine
    feedback,           \* local feedback
    missing_info,       \* local missing_info
    final_response,     \* local final_response
    planner_output,     \* local planner_output
    tool_response,      \* local tool_response
    critique_output,    \* local critique_output (last in-loop Critique result)
    final_critique,     \* local final_critique (result of the forced Critique)
    result,             \* value returned by run(), None while not returned
    \* ---- observation of the collaborator boundary ----
    calls,              \* collaborator calls issued in the current run, per role
    at_max_iterations,  \* the flag computed by the last run_critique call
    \* ---- CircuitBreaker ----
    failure_threshold,  \* self.failure_threshold (constructor argument)
    recovery_timeout,   \* self.recovery_timeout (constructor argument)
    failure_count,      \* self.failure_count
    last_failure_time,  \* self.last_failure_time (NoTime models None)
    state,              \* self.state
    now,                \* time.time()
    cbPc,               \* position of the wrapper: "idle" or "running" (inside func)
    cbOutcome,          \* how the last finished wrapper call ended
    cbInvoked,          \* whether the last wrapper call invoked func
    cbAttempt,          \* parity of the number of wrapper calls made
    cbEntryState,       \* self.state when the last wrapper call was entered
    consecutive,        \* consecutive failures of func since its last success
    \* ---- RetryConfig and the decorator arguments ----
    base_delay,         \* retry_config.base_delay, in seconds
    max_delay,          \* retry_config.max_delay, in seconds
    exponential_base,   \* retry_config.exponential_base
    jitter,             \* retry_config.jitter
    max_attempts,       \* retry_config.max_attempts
    exceptions,         \* the exceptions tuple given to the decorator
    \* ---- with_retry: the synchronous wrapper ----
    rPc,                \* position of the retry wrapper
    attempt,            \* loop variable attempt
    last_exception,     \* local last_exception
    outcomes,           \* outcome of every invocation of func so far, in order
    sleeps,             \* attempt indices for which a delay was computed and slept
    delays,             \* the delays slept, in quarters of a second
    surfaced,           \* what the wrapper returned or raised
    \* ---- with_async_retry: the asynchronous wrapper ----
    aPc,                \* position of the asynchronous wrapper
    aAttempt,           \* its loop variable attempt
    aLastException,     \* its local last_exception
    aOutcomes,          \* outcome of every awaited invocation of func, in order
    aDelays,            \* the delays awaited, in quarters of a second
    aSurfaced,          \* what the asynchronous wrapper returned or raised
    \* ---- RetryConfig.get_delay, called on its own ----
    gdPc,               \* "idle" before the call, "done" after it
    gdAttempt,          \* argument attempt
    gdDraw,             \* what random.uniform draws, as a fraction of jitter_range
    gdDelay,            \* the local delay before jitter and the value returned
    \* ---- AdaptiveRetryManager: fields ----
    attempted_strategies,   \* self.attempted_strategies
    successful_strategies,  \* self.successful_strategies
    failed_strategies,      \* self.failed_strategies
    \* ---- find_element: arguments, locals and position ----
    fePc,               \* position of find_element: "idle", "loop", "done"
    target,             \* argument target
    action_type,        \* argument action_type
    strategies,         \* local strategies, as the list of strategy names
    feIndex,            \* index in strategies of the loop variable strategy
    feTrace,            \* the attempts of this call and how each one ended
    feResult,           \* what find_element returned or raised
    \* ---- smart_click: argument, locals and position ----
    scPc,               \* position of smart_click
    text_or_selector,   \* argument text_or_selector
    element,            \* local element
    strategy_used,      \* local strategy_used, without the quoted text
    scIndex,            \* index of the strategy being tried
    scMethod,           \* number of the click method being tried
    scTrace,            \* the strategies tried by this call and how each ended
    scResult            \* what smart_click returned or raised

orchVars == <<max_iterations, iteration_counter, terminate, current_plan,
              use_multi_agent, message_histories, cumulative_tokens, user_prompt,
              usage_of, user_query, pc,
              feedback, missing_info, final_response, planner_output,
              tool_response, critique_output, final_critique, result, calls,
              at_max_iterations>>
cbVars == <<failure_threshold, recovery_timeout, failure_count,
            last_failure_time, state, now, cbPc, cbOutcome, cbInvoked,
            cbAttempt, cbEntryState, consecutive>>
retryVars == <<base_delay, max_delay, exponential_base, jitter, max_attempts,
               exceptions, rPc, attempt, last_exception, outcomes, sleeps,
               delays, surfaced>>
asyncVars == <<aPc, aAttempt, aLastException, aOutcomes, aDelays, aSurfaced>>
delayVars == <<gdPc, gdAttempt, gdDraw, gdDelay>>
resolveVars == <<attempted_strategies, successful_strategies,
                 failed_strategies, fePc, target, action_type, strategies,
                 feIndex, feTrace, feResult>>
clickVars == <<scPc, text_or_selector, element, strategy_used, scIndex,
               scMethod, scTrace, scResult>>
overlapVars == <<inflight>>
monitorVars == <<monitoring, monitor_thread, metrics_history, threads,
                 appended, pmPc, pmLast>>
vars == <<orchVars, cbVars, retryVars, asyncVars, delayVars, resolveVars,
        clickVars, overlapVars, monitorVars>>
notOrchVars == <<cbVars, retryVars, asyncVars, delayVars, resolveVars,
        clickVars, overlapVars, monitorVars>>
notCBVars == <<orchVars, retryVars, asyncVars, delayVars, resolveVars,
        clickVars, overlapVars, monitorVars>>
notRetryVars == <<orchVars, cbVars, asyncVars, delayVars, resolveVars,
        clickVars, overlapVars, monitorVars>>
notAsyncVars == <<orchVars, cbVars, retryVars, delayVars, resolveVars,
        clickVars, overlapVars, monitorVars>>
notDelayVars == <<orchVars, cbVars, retryVars, asyncVars, resolveVars,
        clickVars, overlapVars, monitorVars>>
notResolveVars == <<orchVars, cbVars, retryVars, asyncVars, delayVars,
        clickVars, overlapVars, monitorVars>>
notClickVars == <<orchVars, cbVars, retryVars, asyncVars, delayVars,
        resolveVars, overlapVars, monitorVars>>
notOverlapVars == <<orchVars, cbVars, retryVars, asyncVars, delayVars,
        resolveVars, clickVars, monitorVars>>
notMonitorVars == <<orchVars, cbVars, retryVars, asyncVars, delayVars,
        resolveVars, clickVars, overlapVars>>
notPairVars == <<orchVars, cbVars, delayVars, resolveVars, clickVars,
        overlapVars, monitorVars>>
notCBOverlapVars == <<orchVars, retryVars, asyncVars, delayVars, resolveVars,
        clickVars, monitorVars>>

(***************************************************************************)
(* Bounds of the model.                                                    *)
(***************************************************************************)
MaxIter == 3        \* max_iterations ranges over 0..MaxIter
MaxThreshold == 2   \* failure_threshold ranges over 1..MaxThreshold
MaxRecovery == 2    \* recovery_timeout ranges over 1..MaxRecovery
MaxTime == 6        \* the clock runs from 1 to MaxTime
MaxAttempts == 3    \* max_attempts ranges over 1..MaxAttempts
MaxBaseDelay == 2   \* get_delay: base_delay ranges over 0..MaxBaseDelay seconds
MaxMaxDelay == 4    \* get_delay: max_delay ranges over -1..MaxMaxDelay seconds
MaxExpBase == 2     \* get_delay: exponential_base ranges over 0..MaxExpBase
MaxIndex == 3       \* get_delay: the attempt index ranges over 0..MaxIndex
MaxCallers == 2     \* wrapper calls of one breaker that may overlap
MaxThreads == 2     \* start_monitoring creates at most MaxThreads threads
MaxSamples == 3     \* metrics_history.append is called at most MaxSamples times
HistorySize == 2    \* history_size, the maxlen of metrics_history
MaxTokens == 3      \* a run starts only while the total tokens counted are at most MaxTokens
MaxLog == 8         \* a find_element call starts only if its attempts fit in MaxLog entries

(***************************************************************************)
(* Text values.  A text is a sequence of tokens, so that an f-string is a  *)
(* concatenation and "contains" is decidable.  None is Python's None.      *)
(***************************************************************************)
None == <<"<None>">>
EmptyStr == <<>>

\* Python truthiness of an Optional[str]: None and "" are falsy.
Truthy(x) == x # None /\ x # EmptyStr

\* Python's `x or y`.
PyOr(x, y) == IF Truthy(x) THEN x ELSE y

\* How an f-string renders an Optional[str].
Fmt(x) == IF x = None THEN <<"None">> ELSE x

Contains(text, part) ==
    \E i \in 0..(Len(text) - Len(part)) :
        SubSeq(text, i + 1, i + Len(part)) = part

\* Values the collaborators may answer with.
Plans == {EmptyStr, <<"planA">>, <<"planB">>}
NextSteps == {<<"step">>}
ToolTexts == {<<"tool output">>}
Feedbacks == {<<"fb1">>, <<"fb2">>}
FinalResponses == {EmptyStr, <<"answer1">>, <<"answer2">>}
MissingInfos == {EmptyStr, <<"missing">>}

PlannerOutputs == [plan : Plans, next_step : NextSteps]
CritiqueOutputs == [feedback : Feedbacks, terminate : BOOLEAN,
                    final_response : FinalResponses,
                    missing_information : MissingInfos]

NoPlannerOutput == [plan |-> None, next_step |-> None]
NoCritiqueOutput == [feedback |-> None, terminate |-> FALSE,
                     final_response |-> None, missing_information |-> None]
NoCalls == [plan |-> 0, act |-> 0, critique |-> 0, forced |-> 0]

\* The tasks a caller may pass to run().
UserQueries == {<<"open the page">>, <<"find the price">>}

\* What _run_single_agent returns when the agent's output is empty.
NoOutputText == <<"Task completed but no output generated">>

\* What the single browser agent may answer with.
SingleOutputs == ToolTexts \cup FinalResponses \cup {None}

\* The prompt run_browser_agent builds from the plan and the current step.
BrowserPrompt(plan, current_step) ==
    <<"Plan: ">> \o plan \o <<"Current Step: ">> \o current_step
        \o <<"Execute the current step using available tools.">>

\* The texts _run_multi_agent and run_browser_agent build themselves.
NoFinalResponseText == <<"Task completed but no final response generated">>
IncompleteText(n, fb) ==
    <<"Task did not complete within ", ToString(n), " iterations. Last feedback: ">>
        \o Fmt(fb)
BrowserErrorText == <<"Browser agent execution failed: ", "error">>

(***************************************************************************)
(* AgentOrchestrator                                                       *)
(***************************************************************************)

\* The three agents.
Roles == {"planner", "browser", "critique"}

\* self.message_histories and self.cumulative_tokens as __init__ sets them.
NoHistories == [r \in Roles |-> <<>>]
NoTokens == [r \in Roles |-> [total |-> 0, request |-> 0, response |-> 0]]

\* The _usage attribute of a response: absent, an object without
\* total_tokens, or an object with the three token counts.
NoUsage == [kind |-> "absent", total_tokens |-> 0, request_tokens |-> 0,
            response_tokens |-> 0]
UsageWithoutTotal == [kind |-> "no total_tokens", total_tokens |-> 0,
                      request_tokens |-> 0, response_tokens |-> 0]
Usage(t, rq, rs) == [kind |-> "tokens", total_tokens |-> t,
                     request_tokens |-> rq, response_tokens |-> rs]

\* What the responses of each agent carry as _usage during a run.
UsageProfiles ==
    {[r \in Roles |-> NoUsage],
     [planner |-> Usage(5, 3, 2), browser |-> Usage(7, 4, 3),
      critique |-> Usage(3, 2, 1)],
     [planner |-> Usage(4, 4, 0), browser |-> UsageWithoutTotal,
      critique |-> NoUsage]}

\* response.new_messages(): the request and the response of the call.
new_messages(r) == <<r \o " request", r \o " response">>

\* self.message_histories[r].extend(response.new_messages())
extend(r) == [message_histories EXCEPT ![r] = @ \o new_messages(r)]

\* update_token_usage assigning the counts instead of adding them.
update_token_usage_assigns(r, usage) ==
    IF usage.kind = "tokens"
    THEN [cumulative_tokens EXCEPT
            ![r] = [total |-> usage.total_tokens,
                    request |-> usage.request_tokens,
                    response |-> usage.response_tokens]]
    ELSE cumulative_tokens

\* update_token_usage(agent_type, usage)
update_token_usage(r, usage) ==
    IF usage.kind = "tokens"
    THEN [cumulative_tokens EXCEPT
            ![r] = [total |-> @.total + usage.total_tokens,
                    request |-> @.request + usage.request_tokens,
                    response |-> @.response + usage.response_tokens]]
    ELSE cumulative_tokens

\* `if hasattr(response, '_usage'): self.log_token_usage(agent_type, ...)`
log_token_usage(r, usage) ==
    IF usage.kind = "absent" THEN cumulative_tokens
    ELSE update_token_usage(r, usage)

\* The sum of the three total counters, as the summary of a run logs it.
TotalTokens ==
    cumulative_tokens["planner"].total + cumulative_tokens["browser"].total
        + cumulative_tokens["critique"].total

\* The constructor arguments and collaborators that OrchInit leaves open.
OrchEnv(multi, profile) ==
    /\ use_multi_agent = multi
    /\ usage_of = profile

\* The task the caller will pass to run().
QueryEnv(q) == user_query = q

\* AgentOrchestrator.__init__ with max_iterations = m; no run in progress.
OrchInit(m) ==
    /\ max_iterations = m
    /\ iteration_counter = 0
    /\ terminate = FALSE
    /\ current_plan = None
    /\ message_histories = NoHistories
    /\ cumulative_tokens = NoTokens
    /\ user_prompt = None
    /\ pc = "idle"
    /\ feedback = None
    /\ missing_info = None
    /\ final_response = None
    /\ planner_output = NoPlannerOutput
    /\ tool_response = None
    /\ critique_output = NoCritiqueOutput
    /\ final_critique = NoCritiqueOutput
    /\ result = None
    /\ calls = NoCalls
    /\ at_max_iterations = FALSE

\* The while condition of the main orchestration loop.
LoopCondition_le == ~terminate /\ iteration_counter <= max_iterations
LoopCondition == ~terminate /\ iteration_counter < max_iterations

\* run_critique: at_max_iterations = self.iteration_counter >= self.max_iterations
AtMaxIterations == iteration_counter >= max_iterations

\* The condition of the "max iterations reached" branch after the loop.
ForcedCondition_ignores_terminate == iteration_counter >= max_iterations
ForcedCondition == iteration_counter >= max_iterations /\ ~terminate

\* run_planner storing the plan in the first iteration only.
StoredPlan_first_only(plan) ==
    IF iteration_counter = 1 THEN plan ELSE current_plan

\* run_planner: store the plan.
StoredPlan(plan) ==
    IF ~Truthy(current_plan) \/ iteration_counter = 1 THEN plan ELSE current_plan

\* final_response after the forced Critique call answered with `out`.
ForcedFinalResponse_no_fallback(out) == out.final_response
ForcedFinalResponse(out) ==
    PyOr(out.final_response, IncompleteText(max_iterations, feedback))

\* The return statement of _run_multi_agent without its placeholder text.
ReturnValue_raw(fr) == fr

\* The value of the return statement of _run_multi_agent.
ReturnValue(fr) == PyOr(fr, NoFinalResponseText)

\* run(user_query) with use_multi_agent: entry of _run_multi_agent.
RunStart ==
    /\ pc = "idle"
    /\ use_multi_agent
    /\ TotalTokens <= MaxTokens
    /\ feedback' = None
    /\ missing_info' = None
    /\ final_response' = None
    /\ pc' = "while"
    /\ UNCHANGED <<use_multi_agent, message_histories, cumulative_tokens, usage_of,
                   user_query, user_prompt>>
    /\ UNCHANGED <<max_iterations, iteration_counter, terminate, current_plan,
                   planner_output, tool_response, critique_output,
                   final_critique, result, calls, at_max_iterations>>
    /\ UNCHANGED notOrchVars

\* The loop test passes: increment the counter and call the Planner.
WhileEnter ==
    /\ pc = "while"
    /\ LoopCondition
    /\ iteration_counter' = iteration_counter + 1
    /\ calls' = [calls EXCEPT !.plan = @ + 1]
    /\ pc' = "plan"
    /\ UNCHANGED <<use_multi_agent, message_histories, cumulative_tokens, usage_of,
                   user_query, user_prompt>>
    /\ UNCHANGED <<max_iterations, terminate, current_plan, feedback,
                   missing_info, final_response, planner_output, tool_response,
                   critique_output, final_critique, result, at_max_iterations>>
    /\ UNCHANGED notOrchVars

\* The loop test fails: leave the loop.
WhileExit ==
    /\ pc = "while"
    /\ ~LoopCondition
    /\ pc' = "after"
    /\ UNCHANGED <<use_multi_agent, message_histories, cumulative_tokens, usage_of,
                   user_query, user_prompt>>
    /\ UNCHANGED <<max_iterations, iteration_counter, terminate, current_plan,
                   feedback, missing_info, final_response, planner_output,
                   tool_response, critique_output, final_critique, result,
                   calls, at_max_iterations>>
    /\ UNCHANGED notOrchVars

\* run_planner returns `out`; the Browser agent is called next.
PlannerReturn(out) ==
    /\ pc = "plan"
    /\ current_plan' = StoredPlan(out.plan)
    /\ planner_output' = out
    /\ calls' = [calls EXCEPT !.act = @ + 1]
    /\ pc' = "act"
    /\ message_histories' = extend("planner")
    /\ cumulative_tokens' = log_token_usage("planner", usage_of["planner"])
    /\ user_prompt' = BrowserPrompt(out.plan, out.next_step)
    /\ UNCHANGED <<use_multi_agent, usage_of, user_query>>
    /\ UNCHANGED <<max_iterations, iteration_counter, terminate, feedback,
                   missing_info, final_response, tool_response,
                   critique_output, final_critique, result, at_max_iterations>>
    /\ UNCHANGED notOrchVars

\* The Planner raises: run_planner re-raises, _run_multi_agent re-raises.
PlannerRaise ==
    /\ pc = "plan"
    /\ pc' = "raised"
    /\ UNCHANGED <<use_multi_agent, message_histories, cumulative_tokens, usage_of,
                   user_query, user_prompt>>
    /\ UNCHANGED <<max_iterations, iteration_counter, terminate, current_plan,
                   feedback, missing_info, final_response, planner_output,
                   tool_response, critique_output, final_critique, result,
                   calls, at_max_iterations>>
    /\ UNCHANGED notOrchVars

\* The Browser agent answers `text`: run_browser_agent returns it and
\* run_critique is called next.
BrowserReturn(text) ==
    /\ pc = "act"
    /\ tool_response' = text
    /\ calls' = [calls EXCEPT !.critique = @ + 1]
    /\ at_max_iterations' = AtMaxIterations
    /\ pc' = "critique"
    /\ message_histories' = extend("browser")
    /\ cumulative_tokens' = log_token_usage("browser", usage_of["browser"])
    /\ UNCHANGED <<use_multi_agent, usage_of, user_query, user_prompt>>
    /\ UNCHANGED <<max_iterations, iteration_counter, terminate, current_plan,
                   feedback, missing_info, final_response, planner_output,
                   critique_output, final_critique, result>>
    /\ UNCHANGED notOrchVars

\* The Browser agent raises, as it would be handled if run_browser_agent
\* re-raised the way run_planner and run_critique do.
BrowserRaise_reraises ==
    /\ pc = "act"
    /\ pc' = "raised"
    /\ UNCHANGED <<use_multi_agent, message_histories, cumulative_tokens, usage_of,
                   user_query, user_prompt>>
    /\ UNCHANGED <<max_iterations, iteration_counter, terminate, current_plan,
                   feedback, missing_info, final_response, planner_output,
                   tool_response, critique_output, final_critique, result,
                   calls, at_max_iterations>>
    /\ UNCHANGED notOrchVars

\* The Browser agent raises, as it would be handled if run_browser_agent
\* swallowed the exception and returned nothing to pass on.
BrowserRaise_drops_error ==
    /\ pc = "act"
    /\ tool_response' = None
    /\ calls' = [calls EXCEPT !.critique = @ + 1]
    /\ at_max_iterations' = AtMaxIterations
    /\ pc' = "critique"
    /\ UNCHANGED <<use_multi_agent, message_histories, cumulative_tokens, usage_of,
                   user_query, user_prompt>>
    /\ UNCHANGED <<max_iterations, iteration_counter, terminate, current_plan,
                   feedback, missing_info, final_response, planner_output,
                   critique_output, final_critique, result>>
    /\ UNCHANGED notOrchVars

\* The Browser agent raises: run_browser_agent catches the exception and
\* returns the error message as the tool response; run_critique is called next.
BrowserRaise ==
    /\ pc = "act"
    /\ tool_response' = BrowserErrorText
    /\ calls' = [calls EXCEPT !.critique = @ + 1]
    /\ at_max_iterations' = AtMaxIterations
    /\ pc' = "critique"
    /\ UNCHANGED <<use_multi_agent, message_histories, cumulative_tokens, usage_of,
                   user_query, user_prompt>>
    /\ UNCHANGED <<max_iterations, iteration_counter, terminate, current_plan,
                   feedback, missing_info, final_response, planner_output,
                   critique_output, final_critique, result>>
    /\ UNCHANGED notOrchVars

\* The in-loop run_critique returns `out`.
CritiqueReturn(out) ==
    /\ pc = "critique"
    /\ critique_output' = out
    /\ feedback' = out.feedback
    /\ missing_info' = out.missing_information
    /\ IF out.terminate
       THEN /\ terminate' = TRUE
            /\ final_response' = out.final_response
            /\ pc' = "after"
       ELSE /\ pc' = "while"
            /\ UNCHANGED <<terminate, final_response>>
    /\ message_histories' = extend("critique")
    /\ cumulative_tokens' = log_token_usage("critique", usage_of["critique"])
    /\ UNCHANGED <<use_multi_agent, usage_of, user_query, user_prompt>>
    /\ UNCHANGED <<max_iterations, iteration_counter, current_plan,
                   planner_output, tool_response, final_critique, result,
                   calls, at_max_iterations>>
    /\ UNCHANGED notOrchVars

\* The Critique agent raises inside the loop: the run re-raises.
CritiqueRaise ==
    /\ pc = "critique"
    /\ pc' = "raised"
    /\ UNCHANGED <<use_multi_agent, message_histories, cumulative_tokens, usage_of,
                   user_query, user_prompt>>
    /\ UNCHANGED <<max_iterations, iteration_counter, terminate, current_plan,
                   feedback, missing_info, final_response, planner_output,
                   tool_response, critique_output, final_critique, result,
                   calls, at_max_iterations>>
    /\ UNCHANGED notOrchVars

\* After the loop, max iterations reached: issue the final Critique call.
ForcedCritiqueCall ==
    /\ pc = "after"
    /\ ForcedCondition
    /\ calls' = [calls EXCEPT !.forced = @ + 1]
    /\ at_max_iterations' = AtMaxIterations
    /\ pc' = "final_critique"
    /\ UNCHANGED <<use_multi_agent, message_histories, cumulative_tokens, usage_of,
                   user_query, user_prompt>>
    /\ UNCHANGED <<max_iterations, iteration_counter, terminate, current_plan,
                   feedback, missing_info, final_response, planner_output,
                   tool_response, critique_output, final_critique, result>>
    /\ UNCHANGED notOrchVars

\* After the loop, no forced call: return.
ReturnAfterLoop ==
    /\ pc = "after"
    /\ ~ForcedCondition
    /\ result' = ReturnValue(final_response)
    /\ pc' = "done"
    /\ UNCHANGED <<use_multi_agent, message_histories, cumulative_tokens, usage_of,
                   user_query, user_prompt>>
    /\ UNCHANGED <<max_iterations, iteration_counter, terminate, current_plan,
                   feedback, missing_info, final_response, planner_output,
                   tool_response, critique_output, final_critique, calls,
                   at_max_iterations>>
    /\ UNCHANGED notOrchVars

\* The forced Critique call returns `out`; the run returns.
FinalCritiqueReturn(out) ==
    /\ pc = "final_critique"
    /\ final_critique' = out
    /\ final_response' = ForcedFinalResponse(out)
    /\ result' = ReturnValue(final_response')
    /\ pc' = "done"
    /\ message_histories' = extend("critique")
    /\ cumulative_tokens' = log_token_usage("critique", usage_of["critique"])
    /\ UNCHANGED <<use_multi_agent, usage_of, user_query, user_prompt>>
    /\ UNCHANGED <<max_iterations, iteration_counter, terminate, current_plan,
                   feedback, missing_info, planner_output, tool_response,
                   critique_output, calls, at_max_iterations>>
    /\ UNCHANGED notOrchVars

\* The forced Critique call raises: the run re-raises.
FinalCritiqueRaise ==
    /\ pc = "final_critique"
    /\ pc' = "raised"
    /\ UNCHANGED <<use_multi_agent, message_histories, cumulative_tokens, usage_of,
                   user_query, user_prompt>>
    /\ UNCHANGED <<max_iterations, iteration_counter, terminate, current_plan,
                   feedback, missing_info, final_response, planner_output,
                   tool_response, critique_output, final_critique, result,
                   calls, at_max_iterations>>
    /\ UNCHANGED notOrchVars

\* reset(), as run_with_orchestrator calls it once the run has ended; the
\* frame of the ended run is gone.
reset ==
    /\ pc \in {"done", "raised"}
    /\ iteration_counter' = 0
    /\ terminate' = FALSE
    /\ current_plan' = None
    /\ pc' = "idle"
    /\ feedback' = None
    /\ missing_info' = None
    /\ final_response' = None
    /\ planner_output' = NoPlannerOutput
    /\ tool_response' = None
    /\ critique_output' = NoCritiqueOutput
    /\ final_critique' = NoCritiqueOutput
    /\ result' = None
    /\ calls' = NoCalls
    /\ at_max_iterations' = FALSE
    /\ message_histories' = NoHistories
    /\ user_prompt' = None
    /\ UNCHANGED <<max_iterations, use_multi_agent, cumulative_tokens, usage_of,
                   user_query>>
    /\ UNCHANGED notOrchVars

(***************************************************************************)
(* run(user_query) without use_multi_agent: _run_single_agent              *)
(***************************************************************************)

\* run(user_query) takes the else branch: browser_agent.run is called with
\* user_prompt = user_query and message_history = [].
SingleRunStart ==
    /\ pc = "idle"
    /\ ~use_multi_agent
    /\ calls' = [calls EXCEPT !.act = @ + 1]
    /\ user_prompt' = user_query
    /\ pc' = "single"
    /\ UNCHANGED <<max_iterations, iteration_counter, terminate, current_plan,
                   use_multi_agent, message_histories, cumulative_tokens,
                   usage_of, user_query, feedback, missing_info,
                   final_response, planner_output, tool_response,
                   critique_output, final_critique, result, at_max_iterations>>
    /\ UNCHANGED notOrchVars

\* browser_agent.run returns, and the response is recorded the way
\* run_browser_agent records it.
SingleReturn_records(text) ==
    /\ pc = "single"
    /\ tool_response' = text
    /\ result' = PyOr(text, NoOutputText)
    /\ pc' = "done"
    /\ message_histories' = extend("browser")
    /\ cumulative_tokens' = log_token_usage("browser", usage_of["browser"])
    /\ UNCHANGED <<max_iterations, iteration_counter, terminate, current_plan,
                   use_multi_agent, usage_of, user_query, user_prompt,
                   feedback, missing_info, final_response, planner_output,
                   critique_output, final_critique, calls, at_max_iterations>>
    /\ UNCHANGED notOrchVars

\* browser_agent.run returns with output `text`:
\* return result or "Task completed but no output generated"
SingleReturn(text) ==
    /\ pc = "single"
    /\ tool_response' = text
    /\ result' = PyOr(text, NoOutputText)
    /\ pc' = "done"
    /\ UNCHANGED <<max_iterations, iteration_counter, terminate, current_plan,
                   use_multi_agent, message_histories, cumulative_tokens,
                   usage_of, user_query, user_prompt, feedback, missing_info,
                   final_response, planner_output, critique_output,
                   final_critique, calls, at_max_iterations>>
    /\ UNCHANGED notOrchVars

\* browser_agent.run raises: logged, notified, and raised to the caller.
SingleRaise ==
    /\ pc = "single"
    /\ pc' = "raised"
    /\ UNCHANGED <<max_iterations, iteration_counter, terminate, current_plan,
                   use_multi_agent, message_histories, cumulative_tokens,
                   usage_of, user_query, user_prompt, feedback, missing_info,
                   final_response, planner_output, tool_response,
                   critique_output, final_critique, result, calls,
                   at_max_iterations>>
    /\ UNCHANGED notOrchVars

(***************************************************************************)
(* CircuitBreaker.  One wrapper call at a time: the wrapper is a plain     *)
(* synchronous function.  A call is two steps, its entry (the state test)  *)
(* and the end of func, with the clock free to advance in between.         *)
(***************************************************************************)

\* last_failure_time = None
NoTime == 0

\* CircuitBreaker.__init__(failure_threshold = th, recovery_timeout = rt)
CBInit(th, rt) ==
    /\ failure_threshold = th
    /\ recovery_timeout = rt
    /\ failure_count = 0
    /\ last_failure_time = NoTime
    /\ state = "closed"
    /\ now = 1
    /\ cbPc = "idle"
    /\ cbOutcome = "none"
    /\ cbInvoked = FALSE
    /\ cbAttempt = 0
    /\ cbEntryState = "closed"
    /\ consecutive = 0

\* self.last_failure_time and (time.time() - self.last_failure_time) > self.recovery_timeout
RecoveryElapsed_ge ==
    last_failure_time # NoTime /\ (now - last_failure_time) >= recovery_timeout
RecoveryElapsed ==
    last_failure_time # NoTime /\ (now - last_failure_time) > recovery_timeout

\* self.state once the wrapper has passed the open test.
AdmittedState_closed == IF state = "open" THEN "closed" ELSE state
AdmittedState == IF state = "open" THEN "half-open" ELSE state

\* _on_success
on_success ==
    /\ failure_count' = 0
    /\ state' = "closed"

\* _on_failure
on_failure_gt ==
    /\ failure_count' = failure_count + 1
    /\ last_failure_time' = now
    /\ state' = IF failure_count' > failure_threshold THEN "open" ELSE state
on_failure_keeps_first_time ==
    /\ failure_count' = failure_count + 1
    /\ last_failure_time' = IF last_failure_time = NoTime THEN now
                            ELSE last_failure_time
    /\ state' = IF failure_count' >= failure_threshold THEN "open" ELSE state
on_failure ==
    /\ failure_count' = failure_count + 1
    /\ last_failure_time' = now
    /\ state' = IF failure_count' >= failure_threshold THEN "open" ELSE state

\* time.time() advances.
Tick ==
    /\ now < MaxTime
    /\ now' = now + 1
    /\ UNCHANGED <<failure_threshold, recovery_timeout, failure_count,
                   last_failure_time, state, cbPc, cbOutcome, cbInvoked,
                   cbAttempt, cbEntryState, consecutive>>
    /\ UNCHANGED notCBVars

\* The wrapper is entered while open and the recovery time has not passed:
\* raise BrowserAgentError("Circuit breaker is open ...") before the try.
CircuitOpenRaise_in_try ==
    /\ cbPc = "idle"
    /\ state = "open"
    /\ ~RecoveryElapsed
    /\ cbOutcome' = "circuit_open"
    /\ cbInvoked' = FALSE
    /\ cbAttempt' = 1 - cbAttempt
    /\ cbEntryState' = state
    /\ on_failure
    /\ UNCHANGED <<failure_threshold, recovery_timeout, now, cbPc, consecutive>>
    /\ UNCHANGED notCBVars
CircuitOpenRaise ==
    /\ cbPc = "idle"
    /\ state = "open"
    /\ ~RecoveryElapsed
    /\ cbOutcome' = "circuit_open"
    /\ cbInvoked' = FALSE
    /\ cbAttempt' = 1 - cbAttempt
    /\ cbEntryState' = state
    /\ UNCHANGED <<failure_threshold, recovery_timeout, failure_count,
                   last_failure_time, state, now, cbPc, consecutive>>
    /\ UNCHANGED notCBVars

\* The wrapper is entered and passes the open test: func is invoked.
CallAdmitted ==
    /\ cbPc = "idle"
    /\ state = "open" => RecoveryElapsed
    /\ state' = AdmittedState
    /\ cbPc' = "running"
    /\ cbOutcome' = "pending"
    /\ cbInvoked' = TRUE
    /\ cbAttempt' = 1 - cbAttempt
    /\ cbEntryState' = state
    /\ UNCHANGED <<failure_threshold, recovery_timeout, failure_count,
                   last_failure_time, now, consecutive>>
    /\ UNCHANGED notCBVars

\* func returns: self._on_success(); return result
FuncReturns ==
    /\ cbPc = "running"
    /\ on_success
    /\ cbPc' = "idle"
    /\ cbOutcome' = "returned"
    /\ consecutive' = 0
    /\ UNCHANGED <<failure_threshold, recovery_timeout, last_failure_time, now,
                   cbInvoked, cbAttempt, cbEntryState>>
    /\ UNCHANGED notCBVars

\* func raises: self._on_failure(); raise e
FuncRaises ==
    /\ cbPc = "running"
    /\ on_failure
    /\ cbPc' = "idle"
    /\ cbOutcome' = "raised"
    /\ consecutive' = consecutive + 1
    /\ UNCHANGED <<failure_threshold, recovery_timeout, now, cbInvoked,
                   cbAttempt, cbEntryState>>
    /\ UNCHANGED notCBVars

(***************************************************************************)
(* CircuitBreaker with overlapping calls: the wrapper takes no lock, so a  *)
(* second caller (another thread, or func calling the wrapper again) may   *)
(* enter while func of an earlier call is still running.  The entry test   *)
(* and each of _on_success and _on_failure are taken as one step.          *)
(***************************************************************************)

\* The callers that may be inside the wrapper at the same time.
Callers == 1..MaxCallers

\* A caller outside the wrapper that has not called yet.
NotCalling == [pc |-> "idle", admitted |-> "none", outcome |-> "none"]

OverlapInit == inflight = [c \in Callers |-> NotCalling]

\* What the single-call wrapper keeps about its own call is not used here.
cbCallVars == <<cbPc, cbOutcome, cbInvoked, cbAttempt, cbEntryState, consecutive>>

\* Caller c enters the wrapper while open and the recovery time has not
\* passed: raise BrowserAgentError.
OvCircuitOpenRaise(c) ==
    /\ inflight[c].pc = "idle"
    /\ inflight[c].outcome # "circuit_open"
    /\ state = "open"
    /\ ~RecoveryElapsed
    /\ inflight' = [inflight EXCEPT ![c] =
                        [pc |-> "idle", admitted |-> "none",
                         outcome |-> "circuit_open"]]
    /\ UNCHANGED <<failure_threshold, recovery_timeout, failure_count,
                   last_failure_time, state, now>>
    /\ UNCHANGED cbCallVars
    /\ UNCHANGED notCBOverlapVars

\* Caller c enters the wrapper and passes the open test: func is invoked.
OvCallAdmitted(c) ==
    /\ inflight[c].pc = "idle"
    /\ state = "open" => RecoveryElapsed
    /\ state' = AdmittedState
    /\ inflight' = [inflight EXCEPT ![c] =
                        [pc |-> "running", admitted |-> state',
                         outcome |-> "pending"]]
    /\ UNCHANGED <<failure_threshold, recovery_timeout, failure_count,
                   last_failure_time, now>>
    /\ UNCHANGED cbCallVars
    /\ UNCHANGED notCBOverlapVars

\* func of caller c returns: self._on_success(); return result
OvFuncReturns(c) ==
    /\ inflight[c].pc = "running"
    /\ on_success
    /\ inflight' = [inflight EXCEPT ![c].pc = "idle", ![c].outcome = "returned"]
    /\ UNCHANGED <<failure_threshold, recovery_timeout, last_failure_time, now>>
    /\ UNCHANGED cbCallVars
    /\ UNCHANGED notCBOverlapVars

\* func of caller c raises: self._on_failure(); raise e
OvFuncRaises(c) ==
    /\ inflight[c].pc = "running"
    /\ on_failure
    /\ inflight' = [inflight EXCEPT ![c].pc = "idle", ![c].outcome = "raised"]
    /\ UNCHANGED <<failure_threshold, recovery_timeout, now>>
    /\ UNCHANGED cbCallVars
    /\ UNCHANGED notCBOverlapVars

(***************************************************************************)
(* with_retry, with_async_retry and RetryConfig.get_delay                  *)
(***************************************************************************)

\* The exception classes and their base classes (each class included).
Superclasses(c) ==
    CASE c = "Exception" -> {"Exception"}
      [] c = "BrowserAgentError" -> {"BrowserAgentError", "Exception"}
      [] c = "WebDriverException" -> {"WebDriverException", "Exception"}
      [] OTHER -> {c, "BrowserAgentError", "Exception"}

\* The exceptions func may raise.
Raisable == {"BrowserConnectionError", "ElementNotFoundError", "SecurityError",
             "WebDriverException"}

\* The exceptions tuples a decorator is given.
ExceptionTuples == {{"Exception"}, {"WebDriverException"},
                    {"BrowserConnectionError", "PageLoadError"}}

NoException == "<None>"
NotSurfaced == [how |-> "pending", value |-> NoException]

\* `except exceptions as e` catches e.
Caught_any(e) == TRUE
Caught(e) == Superclasses(e) \cap exceptions # {}

\* attempt == retry_config.max_attempts - 1
IsLastAttempt_off_by_one == attempt = max_attempts
IsLastAttempt == attempt = max_attempts - 1

\* The variables a decorator fixes: the RetryConfig and the exceptions tuple.
retryConfigVars == <<base_delay, max_delay, exponential_base, jitter,
                     max_attempts, exceptions>>

\* b ** n for a natural n.
RECURSIVE Pow(_, _)
Pow(b, n) == IF n = 0 THEN 1 ELSE b * Pow(b, n - 1)

Min(a, b) == IF a <= b THEN a ELSE b
Max(a, b) == IF a >= b THEN a ELSE b

\* Delays are held in quarters of a second, so that a quarter of a delay of
\* whole seconds is a whole number: jitter_range = delay * 0.25.
QuartersPerSecond == 4

\* What random.uniform(-jitter_range, jitter_range) returns, as a multiple of
\* jitter_range: either end of the interval or its middle.
UniformDraws == {-1, 0, 1}

\* get_delay without the cap at max_delay.
get_delay_uncapped(i, k) ==
    LET delay == base_delay * Pow(exponential_base, i)
        jitter_range == delay
        jittered == QuartersPerSecond * delay
                        + (IF jitter THEN k * jitter_range ELSE 0)
    IN  [pre |-> QuartersPerSecond * delay, value |-> Max(0, jittered)]

\* RetryConfig.get_delay(attempt) for attempt = i when random.uniform draws
\* k * jitter_range: the delay before jitter and the value returned, both in
\* quarters of a second.
get_delay(i, k) ==
    LET delay == Min(base_delay * Pow(exponential_base, i), max_delay)
        jitter_range == delay
        jittered == QuartersPerSecond * delay
                        + (IF jitter THEN k * jitter_range ELSE 0)
    IN  [pre |-> QuartersPerSecond * delay, value |-> Max(0, jittered)]

\* RetryConfig(base_delay = b, max_delay = mx, exponential_base = eb,
\* jitter = j).
RetryConfigInit(b, mx, eb, j) ==
    /\ base_delay = b
    /\ max_delay = mx
    /\ exponential_base = eb
    /\ jitter = j

\* The delay settings the wrappers are checked with: the defaults of
\* RetryConfig, and a configuration whose second delay is capped.
RetryConfigs == {[base_delay |-> 1, max_delay |-> 30, exponential_base |-> 2,
                  jitter |-> TRUE],
                 [base_delay |-> 2, max_delay |-> 3, exponential_base |-> 2,
                  jitter |-> FALSE]}

\* The decorated function with RetryConfig(max_attempts = n) and exceptions = ex.
RetryInit(n, ex) ==
    /\ max_attempts = n
    /\ exceptions = ex
    /\ rPc = "idle"
    /\ attempt = 0
    /\ last_exception = NoException
    /\ outcomes = <<>>
    /\ sleeps = <<>>
    /\ delays = <<>>
    /\ surfaced = NotSurfaced

\* ---- with_retry.wrapper, step by step ----

\* The wrapper is called: last_exception = None, first pass of the for loop.
SyncCall ==
    /\ rPc = "idle"
    /\ last_exception' = NoException
    /\ attempt' = 0
    /\ outcomes' = <<>>
    /\ sleeps' = <<>>
    /\ delays' = <<>>
    /\ surfaced' = NotSurfaced
    /\ rPc' = "invoke"
    /\ UNCHANGED retryConfigVars

\* func returns: return func(*args, **kwargs)
SyncFuncReturns ==
    /\ rPc = "invoke"
    /\ outcomes' = Append(outcomes, "ok")
    /\ surfaced' = [how |-> "return", value |-> "ok"]
    /\ rPc' = "done"
    /\ UNCHANGED <<attempt, last_exception, sleeps, delays>>
    /\ UNCHANGED retryConfigVars

\* func raises e and no except clause matches: e propagates.
SyncFuncRaisesUncaught(e) ==
    /\ rPc = "invoke"
    /\ ~Caught(e)
    /\ outcomes' = Append(outcomes, e)
    /\ surfaced' = [how |-> "raise", value |-> e]
    /\ rPc' = "done"
    /\ UNCHANGED <<attempt, last_exception, sleeps, delays>>
    /\ UNCHANGED retryConfigVars

\* func raises e, caught, on the last attempt: break, raise last_exception.
SyncFuncRaisesLast(e) ==
    /\ rPc = "invoke"
    /\ Caught(e)
    /\ IsLastAttempt
    /\ outcomes' = Append(outcomes, e)
    /\ last_exception' = e
    /\ surfaced' = [how |-> "raise", value |-> last_exception']
    /\ rPc' = "done"
    /\ UNCHANGED <<attempt, sleeps, delays>>
    /\ UNCHANGED retryConfigVars

\* func raises e, caught, not the last attempt: get_delay(attempt), with
\* random.uniform drawing k, then time.sleep(delay).
SyncFuncRaisesRetry(e, k) ==
    /\ rPc = "invoke"
    /\ Caught(e)
    /\ ~IsLastAttempt
    /\ outcomes' = Append(outcomes, e)
    /\ last_exception' = e
    /\ sleeps' = Append(sleeps, attempt)
    /\ delays' = Append(delays, get_delay(attempt, k).value)
    /\ rPc' = "sleep"
    /\ UNCHANGED <<attempt, surfaced>>
    /\ UNCHANGED retryConfigVars

\* The sleep ends: next pass of `for attempt in range(max_attempts)`, or the
\* range is exhausted and last_exception is raised.
SyncSleepDone ==
    /\ rPc = "sleep"
    /\ IF attempt + 1 < max_attempts
       THEN /\ attempt' = attempt + 1
            /\ rPc' = "invoke"
            /\ UNCHANGED surfaced
       ELSE /\ surfaced' = [how |-> "raise", value |-> last_exception]
            /\ rPc' = "done"
            /\ UNCHANGED attempt
    /\ UNCHANGED <<last_exception, outcomes, sleeps, delays>>
    /\ UNCHANGED retryConfigVars

\* The caller has its result or exception and may call the wrapper again.
SyncCallerContinues ==
    /\ rPc = "done"
    /\ rPc' = "idle"
    /\ UNCHANGED <<attempt, last_exception, outcomes, sleeps, delays, surfaced>>
    /\ UNCHANGED retryConfigVars

\* ---- with_retry.wrapper on its own ----

RetryCall == SyncCall /\ UNCHANGED notRetryVars

RetryFuncReturns == SyncFuncReturns /\ UNCHANGED notRetryVars

RetryFuncRaisesUncaught(e) == SyncFuncRaisesUncaught(e) /\ UNCHANGED notRetryVars

RetryFuncRaisesLast(e) == SyncFuncRaisesLast(e) /\ UNCHANGED notRetryVars

RetryFuncRaisesRetry(e) ==
    /\ \E k \in UniformDraws : SyncFuncRaisesRetry(e, k)
    /\ UNCHANGED notRetryVars

SleepDone == SyncSleepDone /\ UNCHANGED notRetryVars

RetryCallerContinues == SyncCallerContinues /\ UNCHANGED notRetryVars

(***************************************************************************)
(* with_async_retry.wrapper, and the two wrappers driven side by side      *)
(***************************************************************************)

\* with_async_retry: attempt == retry_config.max_attempts - 1
AsyncIsLastAttempt_off_by_one == aAttempt = max_attempts
AsyncIsLastAttempt == aAttempt = max_attempts - 1

\* The decorated coroutine function; no call in progress.
AsyncInit ==
    /\ aPc = "idle"
    /\ aAttempt = 0
    /\ aLastException = NoException
    /\ aOutcomes = <<>>
    /\ aDelays = <<>>
    /\ aSurfaced = NotSurfaced

\* The wrapper is awaited: last_exception = None, first pass of the loop.
AsyncCall ==
    /\ aPc = "idle"
    /\ aLastException' = NoException
    /\ aAttempt' = 0
    /\ aOutcomes' = <<>>
    /\ aDelays' = <<>>
    /\ aSurfaced' = NotSurfaced
    /\ aPc' = "invoke"

\* return await func(*args, **kwargs)
AsyncFuncReturns ==
    /\ aPc = "invoke"
    /\ aOutcomes' = Append(aOutcomes, "ok")
    /\ aSurfaced' = [how |-> "return", value |-> "ok"]
    /\ aPc' = "done"
    /\ UNCHANGED <<aAttempt, aLastException, aDelays>>

\* The awaited func raises e and the except clause does not match.
AsyncFuncRaisesUncaught(e) ==
    /\ aPc = "invoke"
    /\ ~Caught(e)
    /\ aOutcomes' = Append(aOutcomes, e)
    /\ aSurfaced' = [how |-> "raise", value |-> e]
    /\ aPc' = "done"
    /\ UNCHANGED <<aAttempt, aLastException, aDelays>>

\* The awaited func raises e, caught, on the last attempt: break, raise.
AsyncFuncRaisesLast(e) ==
    /\ aPc = "invoke"
    /\ Caught(e)
    /\ AsyncIsLastAttempt
    /\ aOutcomes' = Append(aOutcomes, e)
    /\ aLastException' = e
    /\ aSurfaced' = [how |-> "raise", value |-> aLastException']
    /\ aPc' = "done"
    /\ UNCHANGED <<aAttempt, aDelays>>

\* The awaited func raises e, caught, not the last attempt:
\* get_delay(attempt), then await asyncio.sleep(delay).
AsyncFuncRaisesRetry(e, k) ==
    /\ aPc = "invoke"
    /\ Caught(e)
    /\ ~AsyncIsLastAttempt
    /\ aOutcomes' = Append(aOutcomes, e)
    /\ aLastException' = e
    /\ aDelays' = Append(aDelays, get_delay(aAttempt, k).value)
    /\ aPc' = "sleep"
    /\ UNCHANGED <<aAttempt, aSurfaced>>

\* asyncio.sleep ends: next pass of the loop, or raise last_exception.
AsyncSleepDone ==
    /\ aPc = "sleep"
    /\ IF aAttempt + 1 < max_attempts
       THEN /\ aAttempt' = aAttempt + 1
            /\ aPc' = "invoke"
            /\ UNCHANGED aSurfaced
       ELSE /\ aSurfaced' = [how |-> "raise", value |-> aLastException]
            /\ aPc' = "done"
            /\ UNCHANGED aAttempt
    /\ UNCHANGED <<aLastException, aOutcomes, aDelays>>

\* The awaiting caller has its result or exception.
AsyncCallerContinues ==
    /\ aPc = "done"
    /\ aPc' = "idle"
    /\ UNCHANGED <<aAttempt, aLastException, aOutcomes, aDelays, aSurfaced>>

\* What an invocation of func does: it returns, or raises one of Raisable.
FuncOutcomes == {"ok"} \cup Raisable

\* How each wrapper goes on when its invocation of func ends with o and the
\* random draw of get_delay, if it comes to one, is k.
SyncResponse(o, k) ==
    IF o = "ok" THEN SyncFuncReturns
    ELSE \/ SyncFuncRaisesUncaught(o)
         \/ SyncFuncRaisesLast(o)
         \/ SyncFuncRaisesRetry(o, k)

AsyncResponse(o, k) ==
    IF o = "ok" THEN AsyncFuncReturns
    ELSE \/ AsyncFuncRaisesUncaught(o)
         \/ AsyncFuncRaisesLast(o)
         \/ AsyncFuncRaisesRetry(o, k)

\* The two wrappers, decorated with the same arguments, are called.
PairCall == SyncCall /\ AsyncCall /\ UNCHANGED notPairVars

\* Both invocations of func end the same way, and random.uniform draws the
\* same number for both.
PairFuncResponds(o, k) ==
    SyncResponse(o, k) /\ AsyncResponse(o, k) /\ UNCHANGED notPairVars

\* Both sleeps end.
PairSleepDone == SyncSleepDone /\ AsyncSleepDone /\ UNCHANGED notPairVars

\* Both callers have their result or exception.
PairCallerContinues ==
    SyncCallerContinues /\ AsyncCallerContinues /\ UNCHANGED notPairVars

(***************************************************************************)
(* RetryConfig.get_delay called on its own                                 *)
(***************************************************************************)

NoDelay == [pre |-> 0, value |-> 0]

\* Before get_delay(i) is called; random.uniform will draw k.
GetDelayInit(i, k) ==
    /\ gdPc = "idle"
    /\ gdAttempt = i
    /\ gdDraw = k
    /\ gdDelay = NoDelay

\* get_delay(attempt) computes and returns the delay.
GetDelayCall ==
    /\ gdPc = "idle"
    /\ gdDelay' = get_delay(gdAttempt, gdDraw)
    /\ gdPc' = "done"
    /\ UNCHANGED <<gdAttempt, gdDraw>>
    /\ UNCHANGED notDelayVars

\* The caller asks for the delay of another attempt; random.uniform will
\* draw k.
GetDelayAgain(i, k) ==
    /\ gdPc = "done"
    /\ gdAttempt' = i
    /\ gdDraw' = k
    /\ gdDelay' = NoDelay
    /\ gdPc' = "idle"
    /\ UNCHANGED notDelayVars

(***************************************************************************)
(* AdaptiveRetryManager (adaptive_retry.py)                                *)
(***************************************************************************)

\* A target is a text given character by character.
Targets == {<<"O", "K">>, <<"#", "o", "k">>, <<"O", "K", ":">>}
ActionTypes == {"click", "type", "hover"}

\* Names of the strategies.
CSSSelector == "CSS Selector"
ExactTextMatch == "Exact Text Match"
PartialTextMatch == "Partial Text Match"
RoleButton == "Role-based (button)"
RoleLink == "Role-based (link)"
ARIALabel == "ARIA Label"
Placeholder == "Placeholder"
XPath == "XPath"

\* _looks_like_selector: any of the selector characters occurs in the text.
selector_chars == {".", "#", "[", "]", ">", "~", "+", ":"}
looks_like_selector(text) == \E i \in 1..Len(text) : text[i] \in selector_chars

\* _get_strategies_for_target with the Placeholder strategy appended right
\* after the text strategies instead of after the ARIA label.
get_strategies_placeholder_early(t, a) ==
    (IF looks_like_selector(t) THEN <<CSSSelector>> ELSE <<>>)
        \o <<ExactTextMatch, PartialTextMatch>>
        \o (IF a = "click" THEN <<RoleButton, RoleLink>> ELSE <<>>)
        \o (IF a = "type" THEN <<Placeholder>> ELSE <<>>)
        \o <<ARIALabel>>
        \o <<XPath>>

\* _get_strategies_for_target: the ordered list of strategy names.
get_strategies_for_target(t, a) ==
    (IF looks_like_selector(t) THEN <<CSSSelector>> ELSE <<>>)
        \o <<ExactTextMatch, PartialTextMatch>>
        \o (IF a = "click" THEN <<RoleButton, RoleLink>> ELSE <<>>)
        \o <<ARIALabel>>
        \o (IF a = "type" THEN <<Placeholder>> ELSE <<>>)
        \o <<XPath>>

\* list.count(name)
Count(list, name) == Cardinality({i \in 1..Len(list) : list[i] = name})

\* get_statistics: the entries of the returned dict that are numbers.
total_attempts == Len(attempted_strategies)
total_successes == Len(successful_strategies)
strategy_breakdown ==
    [s \in {attempted_strategies[i] : i \in 1..Len(attempted_strategies)} |->
        [attempts |-> Count(attempted_strategies, s),
         successes |-> Count(successful_strategies, s)]]

NoElement == "<None>"
NoTarget == <<>>
NoFindResult == [how |-> "pending", element |-> NoElement, count |-> 0,
                 attempted |-> <<>>]

\* The element a strategy's implementation returned; elements found by
\* different strategies are told apart by the strategy.
ElementOf(name) == "element found by " \o name

\* The exception raised when every strategy failed: its message holds the
\* number of strategies and the joined self.attempted_strategies.
AllFailed(n, log) == [how |-> "raise", element |-> NoElement, count |-> n,
                      attempted |-> log]

\* AdaptiveRetryManager.__init__; no find_element call in progress.
ResolveInit ==
    /\ attempted_strategies = <<>>
    /\ successful_strategies = <<>>
    /\ failed_strategies = <<>>
    /\ fePc = "idle"
    /\ target = NoTarget
    /\ action_type = "<None>"
    /\ strategies = <<>>
    /\ feIndex = 0
    /\ feTrace = <<>>
    /\ feResult = NoFindResult

\* find_element(page, t, a) is called: the strategies are computed and the
\* loop is entered.  The length of the attempt log is capped at MaxLog.
FindElementCall(t, a) ==
    /\ fePc = "idle"
    /\ Len(attempted_strategies) + Len(get_strategies_for_target(t, a)) <= MaxLog
    /\ target' = t
    /\ action_type' = a
    /\ strategies' = get_strategies_for_target(t, a)
    /\ feIndex' = 1
    /\ feTrace' = <<>>
    /\ feResult' = NoFindResult
    /\ fePc' = "loop"
    /\ UNCHANGED <<attempted_strategies, successful_strategies,
                   failed_strategies>>
    /\ UNCHANGED notResolveVars

\* The end of a loop iteration that found nothing: the next strategy, or the
\* raise after the loop when there is none.
LoopContinues ==
    IF feIndex < Len(strategies)
    THEN /\ feIndex' = feIndex + 1
         /\ fePc' = "loop"
         /\ feResult' = feResult
    ELSE /\ feIndex' = feIndex
         /\ fePc' = "done"
         /\ feResult' = AllFailed(Len(strategies), attempted_strategies')

\* The current strategy is attempted and its implementation returns an
\* element, recorded as a success without leaving the loop.
StrategyFinds_keeps_trying ==
    /\ fePc = "loop"
    /\ attempted_strategies' = Append(attempted_strategies, strategies[feIndex])
    /\ successful_strategies' = Append(successful_strategies, strategies[feIndex])
    /\ feTrace' = Append(feTrace, [name |-> strategies[feIndex], outcome |-> "element"])
    /\ IF feIndex < Len(strategies)
       THEN /\ feIndex' = feIndex + 1
            /\ fePc' = "loop"
            /\ feResult' = feResult
       ELSE /\ feIndex' = feIndex
            /\ fePc' = "done"
            /\ feResult' = [how |-> "return",
                            element |-> ElementOf(strategies[feIndex]),
                            count |-> 0, attempted |-> <<>>]
    /\ UNCHANGED <<failed_strategies, target, action_type, strategies>>
    /\ UNCHANGED notResolveVars

\* The current strategy is attempted and its implementation returns an
\* element: find_element returns it.
StrategyFinds ==
    /\ fePc = "loop"
    /\ attempted_strategies' = Append(attempted_strategies, strategies[feIndex])
    /\ successful_strategies' = Append(successful_strategies, strategies[feIndex])
    /\ feTrace' = Append(feTrace, [name |-> strategies[feIndex], outcome |-> "element"])
    /\ feResult' = [how |-> "return", element |-> ElementOf(strategies[feIndex]),
                    count |-> 0, attempted |-> <<>>]
    /\ fePc' = "done"
    /\ UNCHANGED <<failed_strategies, target, action_type, strategies, feIndex>>
    /\ UNCHANGED notResolveVars

\* The current strategy is attempted and its implementation returns a falsy
\* value without raising: nothing but the attempt is recorded.
StrategyReturnsFalsy ==
    /\ fePc = "loop"
    /\ attempted_strategies' = Append(attempted_strategies, strategies[feIndex])
    /\ feTrace' = Append(feTrace, [name |-> strategies[feIndex], outcome |-> "falsy"])
    /\ LoopContinues
    /\ UNCHANGED <<successful_strategies, failed_strategies, target,
                   action_type, strategies>>
    /\ UNCHANGED notResolveVars

\* The current strategy is attempted and its implementation raises: the
\* failure is recorded and the loop continues.
StrategyRaises ==
    /\ fePc = "loop"
    /\ attempted_strategies' = Append(attempted_strategies, strategies[feIndex])
    /\ failed_strategies' = Append(failed_strategies, strategies[feIndex])
    /\ feTrace' = Append(feTrace, [name |-> strategies[feIndex], outcome |-> "raise"])
    /\ LoopContinues
    /\ UNCHANGED <<successful_strategies, target, action_type, strategies>>
    /\ UNCHANGED notResolveVars

\* The caller has received the element or the exception; the frame of the
\* call is gone, the manager keeps its three lists.
FindElementCallerContinues ==
    /\ fePc = "done"
    /\ fePc' = "idle"
    /\ target' = NoTarget
    /\ action_type' = "<None>"
    /\ strategies' = <<>>
    /\ feIndex' = 0
    /\ feTrace' = <<>>
    /\ feResult' = NoFindResult
    /\ UNCHANGED <<attempted_strategies, successful_strategies,
                   failed_strategies>>
    /\ UNCHANGED notResolveVars

(***************************************************************************)
(* smart_click (tools/interactions.py)                                     *)
(***************************************************************************)

\* The strategies of smart_click, named as strategy_used names them.
ByCSSSelector == "CSS selector"
ByExactText == "exact text"
ByPartialText == "partial text"
ByLinkText == "link text"
AttributeProbes == <<"aria-label attribute", "title attribute",
                     "alt attribute", "placeholder attribute">>

\* The characters that make smart_click try the text as a CSS selector.
css_chars == {".", "#", "[", "]", ">"}

\* The strategies smart_click goes through while no element is found.
click_strategies(t) ==
    (IF \E i \in 1..Len(t) : t[i] \in css_chars THEN <<ByCSSSelector>> ELSE <<>>)
        \o <<ByExactText, ByPartialText, ByLinkText>>
        \o AttributeProbes

\* The three click methods: element.click(), JavaScript click, ActionChains.
ClickMethods == 3

NoClickResult == [how |-> "pending", kind |-> "<None>", message |-> <<>>]

\* format_error_message(e, "clicking on '<t>'") for an exception of class c.
format_error_message(c, t) == <<"[", c, "] clicking on ">> \o t

\* The ElementNotFoundError raised by the last except clause for an exception
\* of class c.
WrappedAsNotFound(c, t) ==
    [how |-> "raise", kind |-> "ElementNotFoundError",
     message |-> format_error_message(c, t)]

\* No smart_click call in progress.
ClickInit ==
    /\ scPc = "idle"
    /\ text_or_selector = NoTarget
    /\ element = NoElement
    /\ strategy_used = ""
    /\ scIndex = 0
    /\ scMethod = 0
    /\ scTrace = <<>>
    /\ scResult = NoClickResult

\* smart_click(t) is called; get_driver() is called first.
SmartClickCall(t) ==
    /\ scPc = "idle"
    /\ text_or_selector' = t
    /\ scPc' = "driver"
    /\ UNCHANGED <<element, strategy_used, scIndex, scMethod, scTrace, scResult>>
    /\ UNCHANGED notClickVars

\* get_driver() returns the driver: the first strategy is tried.
GetDriverReturns ==
    /\ scPc = "driver"
    /\ element' = NoElement
    /\ strategy_used' = ""
    /\ scIndex' = 1
    /\ scPc' = "find"
    /\ UNCHANGED <<text_or_selector, scMethod, scTrace, scResult>>
    /\ UNCHANGED notClickVars

\* get_driver() raises BrowserConnectionError: the last except clause turns
\* it into an ElementNotFoundError.
GetDriverRaises ==
    /\ scPc = "driver"
    /\ scResult' = WrappedAsNotFound("BrowserConnectionError", text_or_selector)
    /\ scPc' = "done"
    /\ UNCHANGED <<text_or_selector, element, strategy_used, scIndex,
                   scMethod, scTrace>>
    /\ UNCHANGED notClickVars

\* wait.until of the current strategy returns an element: the remaining
\* strategies are skipped and the element is scrolled into view.
WaitUntilFinds ==
    /\ scPc = "find"
    /\ element' = ElementOf(click_strategies(text_or_selector)[scIndex])
    /\ strategy_used' = click_strategies(text_or_selector)[scIndex]
    /\ scTrace' = Append(scTrace, [name |-> click_strategies(text_or_selector)[scIndex],
                                   outcome |-> "element"])
    /\ scPc' = "scroll"
    /\ UNCHANGED <<text_or_selector, scIndex, scMethod, scResult>>
    /\ UNCHANGED notClickVars

\* wait.until of the current strategy raises TimeoutException: the next
\* strategy is tried, or ElementNotFoundError is raised after the last one.
WaitUntilTimesOut ==
    /\ scPc = "find"
    /\ scTrace' = Append(scTrace, [name |-> click_strategies(text_or_selector)[scIndex],
                                   outcome |-> "timeout"])
    /\ IF scIndex < Len(click_strategies(text_or_selector))
       THEN /\ scIndex' = scIndex + 1
            /\ scPc' = "find"
            /\ UNCHANGED scResult
       ELSE /\ scResult' = [how |-> "raise", kind |-> "ElementNotFoundError",
                            message |-> <<"Could not find clickable element with text or selector: ">>
                                            \o text_or_selector]
            /\ scPc' = "done"
            /\ UNCHANGED scIndex
    /\ UNCHANGED <<text_or_selector, element, strategy_used, scMethod>>
    /\ UNCHANGED notClickVars

\* wait.until of the current strategy raises an exception that is not a
\* TimeoutException (invalid selector, lost session): the strategy's except
\* clause does not catch it and the last except clause turns it into an
\* ElementNotFoundError.
WaitUntilRaises ==
    /\ scPc = "find"
    /\ scTrace' = Append(scTrace, [name |-> click_strategies(text_or_selector)[scIndex],
                                   outcome |-> "raise"])
    /\ scResult' = WrappedAsNotFound("WebDriverException", text_or_selector)
    /\ scPc' = "done"
    /\ UNCHANGED <<text_or_selector, element, strategy_used, scIndex, scMethod>>
    /\ UNCHANGED notClickVars

\* driver.execute_script(scrollIntoView) returns: the click methods follow.
ScrollDone ==
    /\ scPc = "scroll"
    /\ scMethod' = 1
    /\ scPc' = "click"
    /\ UNCHANGED <<text_or_selector, element, strategy_used, scIndex, scTrace,
                   scResult>>
    /\ UNCHANGED notClickVars

\* driver.execute_script(scrollIntoView) raises: the call is not guarded, so
\* the last except clause turns the exception into an ElementNotFoundError.
ScrollRaises ==
    /\ scPc = "scroll"
    /\ scResult' = WrappedAsNotFound("WebDriverException", text_or_selector)
    /\ scPc' = "done"
    /\ UNCHANGED <<text_or_selector, element, strategy_used, scIndex,
                   scMethod, scTrace>>
    /\ UNCHANGED notClickVars

\* The current click method succeeds: smart_click returns its description.
ClickSucceeds ==
    /\ scPc = "click"
    /\ scResult' = [how |-> "return", kind |-> "<None>",
                    message |-> <<"Successfully clicked element using ", strategy_used>>]
    /\ scPc' = "done"
    /\ UNCHANGED <<text_or_selector, element, strategy_used, scIndex,
                   scMethod, scTrace>>
    /\ UNCHANGED notClickVars

\* The current click method raises: the next method is tried, or
\* ElementNotFoundError is raised after the third.
ClickFails ==
    /\ scPc = "click"
    /\ IF scMethod < ClickMethods
       THEN /\ scMethod' = scMethod + 1
            /\ scPc' = "click"
            /\ UNCHANGED scResult
       ELSE /\ scResult' = [how |-> "raise", kind |-> "ElementNotFoundError",
                            message |-> <<"Found element but could not click it: ">>
                                            \o text_or_selector]
            /\ scPc' = "done"
            /\ UNCHANGED scMethod
    /\ UNCHANGED <<text_or_selector, element, strategy_used, scIndex, scTrace>>
    /\ UNCHANGED notClickVars

\* The caller has received the description or the exception; the frame of
\* the call is gone.
SmartClickCallerContinues ==
    /\ scPc = "done"
    /\ scPc' = "idle"
    /\ text_or_selector' = NoTarget
    /\ element' = NoElement
    /\ strategy_used' = ""
    /\ scIndex' = 0
    /\ scMethod' = 0
    /\ scTrace' = <<>>
    /\ scResult' = NoClickResult
    /\ UNCHANGED notClickVars

(***************************************************************************)
(* PerformanceMonitor (performance.py): one caller issuing start_monitoring*)
(* and stop_monitoring one after the other, and the background threads     *)
(* running _monitor_loop.  No lock is taken anywhere, so every step of a   *)
(* thread may fall between any two steps of the caller.                    *)
(***************************************************************************)

\* The threads start_monitoring may create, in the order of their creation.
ThreadIds == 1..MaxThreads
NoThread == 0

\* threading.Thread.is_alive(): started and _monitor_loop not yet returned.
Alive(t) == threads[t] \in {"test", "collect", "sleep"}

\* The threads that are running _monitor_loop.
Running == {t \in ThreadIds : Alive(t)}

\* The thread the next threading.Thread(...) call creates.
NextThread == CHOOSE t \in ThreadIds :
                  /\ threads[t] = "unborn"
                  /\ \A u \in ThreadIds : u < t => threads[u] # "unborn"

\* deque(maxlen = history_size).append
DequeAppend(h, x) ==
    IF Len(h) = HistorySize THEN Append(Tail(h), x) ELSE Append(h, x)

\* stop_monitoring has returned and start_monitoring was not called since.
Stopped == pmPc = "idle" /\ pmLast \in {"joined", "timed out", "no thread"}

\* PerformanceMonitor.__init__
MonitorInit ==
    /\ monitoring = FALSE
    /\ monitor_thread = NoThread
    /\ metrics_history = <<>>
    /\ threads = [t \in ThreadIds |-> "unborn"]
    /\ appended = 0
    /\ pmPc = "idle"
    /\ pmLast = "none"

\* start_monitoring while self.monitoring: return at once.
StartMonitoringAlready ==
    /\ pmPc = "idle"
    /\ monitoring
    /\ pmLast' = "already"
    /\ UNCHANGED <<monitoring, monitor_thread, metrics_history, threads,
                   appended, pmPc>>
    /\ UNCHANGED notMonitorVars

\* start_monitoring: set the flag, create the thread and start it.
StartMonitoring ==
    /\ pmPc = "idle"
    /\ ~monitoring
    /\ \E t \in ThreadIds : threads[t] = "unborn"
    /\ monitoring' = TRUE
    /\ monitor_thread' = NextThread
    /\ threads' = [threads EXCEPT ![NextThread] = "test"]
    /\ pmLast' = "started"
    /\ UNCHANGED <<metrics_history, appended, pmPc>>
    /\ UNCHANGED notMonitorVars

\* stop_monitoring: clear the flag; join the thread if there is one and it is
\* alive, else return.
StopMonitoring ==
    /\ pmPc = "idle"
    /\ monitoring' = FALSE
    /\ IF monitor_thread # NoThread /\ Alive(monitor_thread)
       THEN /\ pmPc' = "join"
            /\ pmLast' = "stopping"
       ELSE /\ pmPc' = "idle"
            /\ pmLast' = "no thread"
    /\ UNCHANGED <<monitor_thread, metrics_history, threads, appended>>
    /\ UNCHANGED notMonitorVars

\* join(timeout = 5.0) returns because the thread has ended.
JoinReturns ==
    /\ pmPc = "join"
    /\ ~Alive(monitor_thread)
    /\ pmPc' = "idle"
    /\ pmLast' = "joined"
    /\ UNCHANGED <<monitoring, monitor_thread, metrics_history, threads, appended>>
    /\ UNCHANGED notMonitorVars

\* join(timeout = 5.0) returns because the five seconds have passed; the
\* thread is still collecting, in a callback or asleep.
JoinTimesOut ==
    /\ pmPc = "join"
    /\ Alive(monitor_thread)
    /\ pmPc' = "idle"
    /\ pmLast' = "timed out"
    /\ UNCHANGED <<monitoring, monitor_thread, metrics_history, threads, appended>>
    /\ UNCHANGED notMonitorVars

\* _monitor_loop of thread t: while self.monitoring
LoopTest(t) ==
    /\ threads[t] = "test"
    /\ threads' = [threads EXCEPT ![t] = IF monitoring THEN "collect" ELSE "ended"]
    /\ UNCHANGED <<monitoring, monitor_thread, metrics_history, appended,
                   pmPc, pmLast>>
    /\ UNCHANGED notMonitorVars

\* _monitor_loop of thread t: collect, append, check limits, run callbacks,
\* then time.sleep(sample_interval).
CollectAppends(t) ==
    /\ threads[t] = "collect"
    /\ appended < MaxSamples
    /\ metrics_history' = DequeAppend(metrics_history, t)
    /\ appended' = appended + 1
    /\ threads' = [threads EXCEPT ![t] = "sleep"]
    /\ UNCHANGED <<monitoring, monitor_thread, pmPc, pmLast>>
    /\ UNCHANGED notMonitorVars

\* _monitor_loop of thread t: _collect_metrics raises; the except clause logs
\* and sleeps.
CollectRaises(t) ==
    /\ threads[t] = "collect"
    /\ threads' = [threads EXCEPT ![t] = "sleep"]
    /\ UNCHANGED <<monitoring, monitor_thread, metrics_history, appended,
                   pmPc, pmLast>>
    /\ UNCHANGED notMonitorVars

\* The sleep of thread t ends: back to the loop test.
MonitorSleepDone(t) ==
    /\ threads[t] = "sleep"
    /\ threads' = [threads EXCEPT ![t] = "test"]
    /\ UNCHANGED <<monitoring, monitor_thread, metrics_history, appended,
                   pmPc, pmLast>>
    /\ UNCHANGED notMonitorVars

(***************************************************************************)
(* Specifications                                                          *)
(***************************************************************************)

OrchIdle ==
    /\ OrchInit(0)
    /\ OrchEnv(FALSE, [r \in Roles |-> NoUsage])
    /\ QueryEnv(None)
CBIdle == CBInit(1, 1)
RetryIdle == RetryInit(1, {"Exception"}) /\ RetryConfigInit(1, 30, 2, TRUE)
AsyncIdle == AsyncInit
DelayIdle == GetDelayInit(0, 0)
ResolveIdle == ResolveInit
ClickIdle == ClickInit
OverlapIdle == OverlapInit
MonitorIdle == MonitorInit

InitOrch ==
    /\ \E m \in 0..MaxIter : OrchInit(m)
    /\ \E profile \in UsageProfiles : OrchEnv(TRUE, profile)
    \* the collaborators' answers do not depend on the task in this model, so
    \* one task stands for all
    /\ QueryEnv(<<"open the page">>)
    /\ CBIdle
    /\ RetryIdle
    /\ ResolveIdle
    /\ ClickIdle
    /\ AsyncIdle
    /\ DelayIdle
    /\ OverlapIdle
    /\ MonitorIdle

NextOrch ==
    \/ RunStart
    \/ WhileEnter
    \/ WhileExit
    \/ \E out \in PlannerOutputs : PlannerReturn(out)
    \/ PlannerRaise
    \/ \E text \in ToolTexts : BrowserReturn(text)
    \/ BrowserRaise
    \/ \E out \in CritiqueOutputs : CritiqueReturn(out)
    \/ CritiqueRaise
    \/ ForcedCritiqueCall
    \/ ReturnAfterLoop
    \/ \E out \in CritiqueOutputs : FinalCritiqueReturn(out)
    \/ FinalCritiqueRaise
    \/ reset

SpecOrch == InitOrch /\ [][NextOrch]_vars

InitCB ==
    /\ \E th \in 1..MaxThreshold, rt \in 1..MaxRecovery : CBInit(th, rt)
    /\ OrchIdle
    /\ RetryIdle
    /\ ResolveIdle
    /\ ClickIdle
    /\ AsyncIdle
    /\ DelayIdle
    /\ OverlapIdle
    /\ MonitorIdle

NextCB ==
    \/ Tick
    \/ CircuitOpenRaise
    \/ CallAdmitted
    \/ FuncReturns
    \/ FuncRaises

InitSingle ==
    /\ \E m \in 0..MaxIter : OrchInit(m)
    /\ \E profile \in UsageProfiles : OrchEnv(FALSE, profile)
    /\ \E q \in UserQueries : QueryEnv(q)
    /\ CBIdle
    /\ RetryIdle
    /\ ResolveIdle
    /\ ClickIdle
    /\ AsyncIdle
    /\ DelayIdle
    /\ OverlapIdle
    /\ MonitorIdle

NextSingle ==
    \/ SingleRunStart
    \/ \E text \in SingleOutputs : SingleReturn(text)
    \/ SingleRaise
    \/ reset

SpecSingle == InitSingle /\ [][NextSingle]_vars

SpecCB == InitCB /\ [][NextCB]_vars

InitCBOverlap ==
    /\ \E th \in 1..MaxThreshold, rt \in 1..MaxRecovery : CBInit(th, rt)
    /\ OverlapInit
    /\ OrchIdle
    /\ RetryIdle
    /\ ResolveIdle
    /\ ClickIdle
    /\ AsyncIdle
    /\ DelayIdle
    /\ MonitorIdle

NextCBOverlap ==
    \/ Tick
    \/ \E c \in Callers : OvCircuitOpenRaise(c)
    \/ \E c \in Callers : OvCallAdmitted(c)
    \/ \E c \in Callers : OvFuncReturns(c)
    \/ \E c \in Callers : OvFuncRaises(c)

SpecCBOverlap == InitCBOverlap /\ [][NextCBOverlap]_vars

InitMonitor ==
    /\ MonitorInit
    /\ OrchIdle
    /\ CBIdle
    /\ RetryIdle
    /\ ResolveIdle
    /\ ClickIdle
    /\ AsyncIdle
    /\ DelayIdle
    /\ OverlapIdle

NextMonitor ==
    \/ StartMonitoringAlready
    \/ StartMonitoring
    \/ StopMonitoring
    \/ JoinReturns
    \/ JoinTimesOut
    \/ \E t \in ThreadIds : LoopTest(t)
    \/ \E t \in ThreadIds : CollectAppends(t)
    \/ \E t \in ThreadIds : CollectRaises(t)
    \/ \E t \in ThreadIds : MonitorSleepDone(t)

SpecMonitor == InitMonitor /\ [][NextMonitor]_vars

\* The decorated function, not yet called, and everything else at rest.
RetryStart ==
    /\ \E n \in 1..MaxAttempts, ex \in ExceptionTuples : RetryInit(n, ex)
    /\ \E c \in RetryConfigs :
          RetryConfigInit(c.base_delay, c.max_delay, c.exponential_base, c.jitter)
    /\ OrchIdle
    /\ CBIdle
    /\ ResolveIdle
    /\ ClickIdle
    /\ DelayIdle
    /\ OverlapIdle
    /\ MonitorIdle

InitRetry ==
    /\ RetryStart
    /\ AsyncIdle

NextRetry ==
    \/ RetryCall
    \/ RetryFuncReturns
    \/ \E e \in Raisable : RetryFuncRaisesUncaught(e)
    \/ \E e \in Raisable : RetryFuncRaisesLast(e)
    \/ \E e \in Raisable : RetryFuncRaisesRetry(e)
    \/ SleepDone
    \/ RetryCallerContinues

SpecRetry == InitRetry /\ [][NextRetry]_vars

InitRetryPair ==
    /\ RetryStart
    /\ AsyncInit

NextRetryPair ==
    \/ PairCall
    \/ \E o \in FuncOutcomes, k \in UniformDraws : PairFuncResponds(o, k)
    \/ PairSleepDone
    \/ PairCallerContinues

SpecRetryPair == InitRetryPair /\ [][NextRetryPair]_vars

InitDelay ==
    /\ \E b \in 0..MaxBaseDelay, mx \in (-1)..MaxMaxDelay,
          eb \in 0..MaxExpBase, j \in BOOLEAN : RetryConfigInit(b, mx, eb, j)
    /\ \E i \in 0..MaxIndex, k \in UniformDraws : GetDelayInit(i, k)
    /\ RetryInit(1, {"Exception"})
    /\ AsyncIdle
    /\ OverlapIdle
    /\ MonitorIdle
    /\ OrchIdle
    /\ CBIdle
    /\ ResolveIdle
    /\ ClickIdle

NextDelay ==
    \/ GetDelayCall
    \/ \E i \in 0..MaxIndex, k \in UniformDraws : GetDelayAgain(i, k)

SpecDelay == InitDelay /\ [][NextDelay]_vars

InitResolve ==
    /\ ResolveInit
    /\ OrchIdle
    /\ CBIdle
    /\ RetryIdle
    /\ ClickIdle
    /\ AsyncIdle
    /\ DelayIdle
    /\ OverlapIdle
    /\ MonitorIdle

NextResolve ==
    \/ \E t \in Targets, a \in ActionTypes : FindElementCall(t, a)
    \/ StrategyFinds
    \/ StrategyReturnsFalsy
    \/ StrategyRaises
    \/ FindElementCallerContinues

SpecResolve == InitResolve /\ [][NextResolve]_vars

InitClick ==
    /\ ClickInit
    /\ OrchIdle
    /\ CBIdle
    /\ RetryIdle
    /\ ResolveIdle
    /\ AsyncIdle
    /\ DelayIdle
    /\ OverlapIdle
    /\ MonitorIdle

NextClick ==
    \/ \E t \in Targets : SmartClickCall(t)
    \/ GetDriverReturns
    \/ GetDriverRaises
    \/ WaitUntilFinds
    \/ WaitUntilTimesOut
    \/ WaitUntilRaises
    \/ ScrollDone
    \/ ScrollRaises
    \/ ClickSucceeds
    \/ ClickFails
    \/ SmartClickCallerContinues

SpecClick == InitClick /\ [][NextClick]_vars

(***************************************************************************)
(* Properties of the orchestration loop (checked under SpecOrch)           *)
(***************************************************************************)

\* C1: in loop mode a run performs at most max_iterations Plan/Act/Critique
\* triples, for every max_iterations >= 0 and every sequence of collaborator
\* answers: the iteration counter is incremented by exactly 1 before each
\* triple (each Plan call), and no triple starts once the counter has reached
\* max_iterations.
C1_IterationBound ==
    /\ [](/\ calls.plan <= max_iterations
          /\ calls.act <= calls.plan
          /\ calls.critique <= calls.act
          /\ calls.plan = iteration_counter)
    /\ [][calls'.plan # calls.plan /\ pc' # "idle" =>
            /\ iteration_counter < max_iterations
            /\ iteration_counter' = iteration_counter + 1
            /\ calls'.plan = calls.plan + 1]_vars
    /\ [][iteration_counter' # iteration_counter /\ pc' # "idle" =>
            /\ iteration_counter' = iteration_counter + 1
            /\ calls'.plan = calls.plan + 1]_vars

\* Witness of C1: the loop has run max_iterations >= 2 full triples without a
\* terminate decision and has been left.
C1_Witness ==
    /\ pc = "after"
    /\ max_iterations >= 2
    /\ iteration_counter = max_iterations
    /\ calls.critique = max_iterations
    /\ ~terminate

\* What the run returns for a Critique decision that terminated the loop.
C2_Returned(out) ==
    IF out.final_response = EmptyStr THEN NoFinalResponseText
    ELSE out.final_response

\* The part of C2 about calls: once a Critique call has returned
\* terminate = true at iteration k, the counter stays at k and no further
\* Plan, Act or Critique call (forced one included) is issued in the run.
C2_NoFurtherCalls ==
    [][terminate /\ pc' # "idle" =>
          /\ calls' = calls
          /\ iteration_counter' = iteration_counter]_vars

\* C2 as stated: the loop stops at iteration k and the run returns the
\* decision's final_response unchanged.
C2_Original ==
    (pc = "done" /\ terminate) =>
        /\ calls.plan = iteration_counter
        /\ calls.critique = iteration_counter
        /\ calls.forced = 0
        /\ result = critique_output.final_response

\* C2 as amended: the loop stops at iteration k with no further call, and the
\* run returns the decision's final_response unchanged when it is not empty,
\* and the fixed text "Task completed but no final response generated" when
\* it is empty.
C2_StopsAndReturns ==
    /\ [](pc = "done" /\ terminate =>
            /\ critique_output.terminate
            /\ calls.plan = iteration_counter
            /\ calls.act = iteration_counter
            /\ calls.critique = iteration_counter
            /\ calls.forced = 0
            /\ iteration_counter \in 1..max_iterations
            /\ result = C2_Returned(critique_output))
    /\ C2_NoFurtherCalls

\* Witness of C2: the Critique call of the last iteration k = max_iterations
\* terminated the run, which returned its non-empty final_response.
C2_Witness ==
    /\ pc = "done"
    /\ terminate
    /\ max_iterations >= 2
    /\ iteration_counter = max_iterations
    /\ result = <<"answer2">>

CallAttempted == cbAttempt' # cbAttempt

\* Time elapsed since the last recorded failure.
Elapsed == now - last_failure_time

\* C4: while closed, the breaker opens exactly when the number of consecutive
\* failed calls since the last successful call reaches failure_threshold: it
\* is closed after fewer, open after exactly failure_threshold, and a success
\* resets failure_count to 0 so that earlier failures no longer count.
C4_Threshold ==
    /\ [](state = "closed" =>
            /\ consecutive < failure_threshold
            /\ failure_count = consecutive)
    /\ []((cbPc = "idle" /\ consecutive = failure_threshold) => state = "open")
    /\ [][(cbPc = "running" /\ cbOutcome' = "returned") =>
            failure_count' = 0]_vars

\* Witness of C4: a breaker with threshold 2 has just opened on the second
\* consecutive failure of a call admitted while closed.
C4_Witness ==
    /\ failure_threshold >= 2
    /\ state = "open"
    /\ cbEntryState = "closed"
    /\ cbOutcome = "raised"
    /\ consecutive = failure_threshold

\* C5: a call made while open and before recovery_timeout has elapsed since
\* last_failure_time fails at once with the circuit-open error, func is not
\* invoked, and state, failure_count and last_failure_time are unchanged.
C5_OpenRejects ==
    [][(CallAttempted /\ state = "open" /\ Elapsed < recovery_timeout) =>
          /\ cbOutcome' = "circuit_open"
          /\ ~cbInvoked'
          /\ cbPc' = "idle"
          /\ UNCHANGED <<state, failure_count, last_failure_time>>]_vars

\* Witness of C5: a call was rejected while open, within the recovery window.
C5_Witness ==
    /\ state = "open"
    /\ cbOutcome = "circuit_open"
    /\ cbEntryState = "open"
    /\ Elapsed < recovery_timeout

\* The open -> half-open transition happens only when a call is attempted.
C6_OnlyOnCall ==
    [][(state = "open" /\ state' = "half-open") => CallAttempted]_vars

\* C6 as stated: a call attempted while open with elapsed >= recovery_timeout
\* moves the breaker to half-open and invokes func.
C6_Original ==
    [][(CallAttempted /\ state = "open" /\ Elapsed >= recovery_timeout) =>
          /\ state' = "half-open"
          /\ cbInvoked']_vars

\* C6 as amended: a call attempted while open moves the breaker to half-open
\* and invokes func exactly when elapsed > recovery_timeout (strictly); with
\* elapsed = recovery_timeout the call is still rejected.  The transition
\* happens only on a call attempt.
C6_HalfOpenOnCall ==
    /\ [][(CallAttempted /\ state = "open") =>
            ((state' = "half-open" /\ cbInvoked' /\ cbPc' = "running")
                <=> Elapsed > recovery_timeout)]_vars
    /\ [][(CallAttempted /\ state = "open" /\ Elapsed = recovery_timeout) =>
            (cbOutcome' = "circuit_open" /\ ~cbInvoked' /\ state' = "open")]_vars
    /\ C6_OnlyOnCall

\* Witness of C6: the trial call is running in half-open.
C6_Witness ==
    /\ state = "half-open"
    /\ cbPc = "running"
    /\ cbInvoked
    /\ cbEntryState = "open"

\* C7: from half-open the trial call decides: a success gives closed with
\* failure_count = 0; a failure gives open with last_failure_time set to the
\* time of that failure.
C7_HalfOpenOutcome ==
    /\ [](state = "half-open" => cbPc = "running")
    /\ [][(state = "half-open" /\ cbPc' = "idle") =>
            /\ cbOutcome' = "returned" =>
                  (state' = "closed" /\ failure_count' = 0)
            /\ cbOutcome' = "raised" =>
                  (state' = "open" /\ last_failure_time' = now)
            /\ cbOutcome' \in {"returned", "raised"}]_vars

\* Witness of C7: the trial call failed and the breaker is open again.
C7_Witness ==
    /\ state = "open"
    /\ cbEntryState = "open"
    /\ cbOutcome = "raised"
    /\ last_failure_time = now

\* C8: the state never changes from open to closed in one step.
C8_NoOpenToClosed ==
    [][~(state = "open" /\ state' = "closed")]_vars

\* Witness of C8: a breaker that was open is closed again, the call that
\* closed it having been entered while open (and run in half-open).
C8_Witness ==
    /\ state = "closed"
    /\ cbEntryState = "open"
    /\ cbOutcome = "returned"

(***************************************************************************)
(* Properties of the retry wrapper (checked under SpecRetry)               *)
(***************************************************************************)

\* The kind of failure e is in the retryable set (subclasses included).
Retryable(e) == \E c \in exceptions : c \in Superclasses(e)

Failed(i) == outcomes[i] # "ok"

\* C9: func is invoked at most max_attempts times and the wrapper returns as
\* soon as one attempt succeeds; when every attempt fails with a retryable
\* kind, func is invoked exactly max_attempts times, with exactly
\* max_attempts - 1 waits (one between consecutive attempts, none after the
\* last), and the failure of the last attempt is raised.
C9_BoundedAttempts ==
    /\ Len(outcomes) <= max_attempts
    /\ \A i \in 1..Len(outcomes) :
          outcomes[i] = "ok" =>
              /\ i = Len(outcomes)
              /\ rPc \in {"done", "idle"}
              /\ surfaced = [how |-> "return", value |-> "ok"]
    /\ sleeps = [i \in 1..Len(sleeps) |-> i - 1]
    /\ rPc = "invoke" => Len(sleeps) = Len(outcomes)
    /\ rPc = "sleep" => Len(sleeps) = Len(outcomes)
    /\ (rPc = "done" /\ \A i \in 1..Len(outcomes) : Failed(i) /\ Retryable(outcomes[i])) =>
          /\ Len(outcomes) = max_attempts
          /\ Len(sleeps) = max_attempts - 1
          /\ surfaced = [how |-> "raise", value |-> outcomes[Len(outcomes)]]

\* Witness of C9: three attempts failed with retryable kinds, the last with a
\* kind that differs from the first, and the wrapper has raised.
C9_Witness ==
    /\ rPc = "done"
    /\ max_attempts = 3
    /\ Len(outcomes) = 3
    /\ \A i \in 1..3 : Failed(i) /\ Retryable(outcomes[i])
    /\ outcomes[1] # outcomes[3]
    /\ Len(sleeps) = 2

\* C10: an attempt that fails with a kind outside the retryable set ends the
\* wrapper at once, whatever the attempt index: that failure is raised, func
\* is not invoked again and no wait follows.
C10_NonRetryableImmediate ==
    \A i \in 1..Len(outcomes) :
        (Failed(i) /\ ~Retryable(outcomes[i])) =>
            /\ i = Len(outcomes)
            /\ rPc \in {"done", "idle"}
            /\ surfaced = [how |-> "raise", value |-> outcomes[i]]
            /\ Len(sleeps) = i - 1

\* Witness of C10: the second of three allowed attempts failed with a kind
\* that is not retryable, after a retryable first failure.
C10_Witness ==
    /\ rPc = "done"
    /\ max_attempts = 3
    /\ Len(outcomes) = 2
    /\ Retryable(outcomes[1])
    /\ ~Retryable(outcomes[2])

\* ---------------------------------------------------------------------------
\* C11: a failure of kind ElementNotFoundError or SecurityError is never
\* retried: whatever tuple of exception classes the wrapper was given
\* (the default (Exception,) included), the attempt that fails with such a
\* kind is the last invocation of func, the failure is raised to the caller
\* and no wait follows it.
FatalKinds == {"ElementNotFoundError", "SecurityError"}

C11_NeverRetried ==
    \A i \in 1..Len(outcomes) :
        outcomes[i] \in FatalKinds =>
            /\ i = Len(outcomes)
            /\ Len(sleeps) = i - 1
            /\ rPc \in {"done", "idle"}
            /\ surfaced = [how |-> "raise", value |-> outcomes[i]]

\* ---------------------------------------------------------------------------
\* C15 as stated: in loop mode a Plan, Act or Critique call that raises does
\* not end the run; the run is never left through the raising exit while one
\* of these calls is outstanding.
C15_Original ==
    [][(pc \in {"plan", "act", "critique"}) => (pc' # "raised")]_vars

\* C15, amended: only an Act call that raises leaves the run going: its error
\* message becomes the tool response and the Critique call of the same
\* iteration is issued next, the iteration counter unchanged.  The run is
\* left through the raising exit exactly from an outstanding Plan or Critique
\* call (the forced one included); that step issues no collaborator call,
\* returns no result, and the only step that follows it is reset().
C15_OnlyActErrorsAbsorbed ==
    [][/\ (pc = "act") =>
            (/\ pc' = "critique"
             /\ calls'.critique = calls.critique + 1
             /\ iteration_counter' = iteration_counter)
       /\ (pc' = "raised") =>
            (/\ pc \in {"plan", "critique", "final_critique", "raised"}
             /\ calls' = calls
             /\ result' = None)
       /\ (pc = "raised") => (pc' \in {"raised", "idle"})]_vars

\* Witness of C15: the Act call of iteration 1 raised, the run went on to
\* iteration 2, and the Plan call of iteration 2 raised and ended the run.
C15_Witness ==
    /\ pc = "raised"
    /\ tool_response = BrowserErrorText
    /\ iteration_counter = 2
    /\ calls.plan = 2
    /\ calls.act = 1
    /\ calls.critique = 1

\* ---------------------------------------------------------------------------
\* C19 as stated: within one run only the Plan call of the first iteration
\* writes current_plan; the Plan call of every later iteration leaves it
\* unchanged, whatever plan texts the calls return.
C19_Original ==
    [][(pc = "plan" /\ iteration_counter > 1) =>
            (current_plan' = current_plan)]_vars

\* C19, amended: within one run current_plan is written by Plan calls only.
\* The Plan call of the first iteration stores its plan; the Plan call of a
\* later iteration stores its plan exactly while current_plan is still empty
\* (every earlier plan text was empty), and leaves it unchanged once it is
\* non-empty.
C19_PlanKeptOnceNonEmpty ==
    [][/\ (pc = "plan" /\ pc' = "act" /\ iteration_counter = 1) =>
            (current_plan' = planner_output'.plan)
       /\ (pc = "plan" /\ pc' = "act" /\ iteration_counter > 1
              /\ ~Truthy(current_plan)) =>
            (current_plan' = planner_output'.plan)
       /\ (pc = "plan" /\ iteration_counter > 1 /\ Truthy(current_plan)) =>
            (current_plan' = current_plan)
       /\ (pc # "plan" /\ pc' # "idle") =>
            (current_plan' = current_plan)]_vars

\* Witness of C19: the Plan call of iteration 2 returned a plan text that
\* differs from the stored, non-empty plan, and the stored plan was kept.
C19_Witness ==
    /\ pc = "act"
    /\ iteration_counter = 2
    /\ Truthy(current_plan)
    /\ Truthy(planner_output.plan)
    /\ planner_output.plan # current_plan

\* ---------------------------------------------------------------------------
\* C20 as stated: in every reachable state, self.terminate implies that a
\* non-empty final response was recorded; the flag is never set on a Critique
\* decision whose final_response is empty.
C20_Original == terminate => Truthy(final_response)

\* C20, amended: self.terminate is set exactly on an in-loop Critique decision
\* with terminate = True, whose final_response is recorded as it is, empty or
\* not; no further collaborator call follows, and the value the run then
\* returns is that final_response, or the fixed placeholder text when it is
\* empty, so the returned value is never empty.
C20_TerminatedHasDecision ==
    terminate =>
        /\ critique_output.terminate
        /\ final_response = critique_output.final_response
        /\ pc \in {"after", "done"}
        /\ calls.forced = 0
        /\ pc = "done" =>
              /\ Truthy(result)
              /\ result = IF final_response = EmptyStr
                          THEN NoFinalResponseText
                          ELSE final_response

\* Witness of C20: a run was terminated by a decision with an empty
\* final_response and has returned the placeholder text.
C20_Witness ==
    /\ terminate
    /\ pc = "done"
    /\ critique_output.final_response = EmptyStr
    /\ final_response = EmptyStr
    /\ result = NoFinalResponseText

\* ---------------------------------------------------------------------------
\* The kind of strategy each strategy name stands for.
StrategyKind(name) ==
    CASE name = CSSSelector -> "Structural"
      [] name = ExactTextMatch -> "ExactText"
      [] name = PartialTextMatch -> "PartialText"
      [] name \in {RoleButton, RoleLink} -> "Role"
      [] name = ARIALabel -> "Attribute aria-label"
      [] name = Placeholder -> "Attribute placeholder"
      [] name = XPath -> "Containment"

\* The names of the strategies attempted so far by the current call.
TraceNames == [i \in 1..Len(feTrace) |-> feTrace[i].name]

\* The order of strategy kinds C12 states.
C12_ClaimedOrder(t, a) ==
    (IF looks_like_selector(t) THEN <<"Structural">> ELSE <<>>)
        \o <<"ExactText", "PartialText">>
        \o (CASE a = "click" -> <<"Role">>
              [] a = "type" -> <<"Attribute placeholder">>
              [] OTHER -> <<>>)
        \o <<"Attribute aria-label", "Attribute title", "Attribute alt",
             "Attribute placeholder">>
        \o <<"Containment">>

\* C12 as stated: the strategies of a find_element call are, in this order,
\* Structural iff the target has a selector character, ExactText,
\* PartialText, the action-specific strategy, the Attribute probes
\* aria-label, title, alt, placeholder, and Containment.
C12_Original ==
    fePc # "idle" =>
        [i \in 1..Len(strategies) |-> StrategyKind(strategies[i])]
            = C12_ClaimedOrder(target, action_type)

\* The order of strategy names per action type, after the optional
\* "CSS Selector".
C12_OrderFor(a) ==
    CASE a = "click" -> <<ExactTextMatch, PartialTextMatch, RoleButton,
                          RoleLink, ARIALabel, XPath>>
      [] a = "type" -> <<ExactTextMatch, PartialTextMatch, ARIALabel,
                         Placeholder, XPath>>
      [] OTHER -> <<ExactTextMatch, PartialTextMatch, ARIALabel, XPath>>

\* C12, amended: find_element tries "CSS Selector" first iff the target holds
\* one of the characters . # [ ] > ~ + : , then "Exact Text Match", "Partial
\* Text Match", for a click "Role-based (button)" then "Role-based (link)",
\* then "ARIA Label", for a type "Placeholder", and "XPath" (containment)
\* last; there is no title or alt probe.  The order is a function of the
\* target and the action type, and the attempts of a call follow it from its
\* first strategy on, without a gap or a repetition.
C12_FixedOrder ==
    fePc # "idle" =>
        /\ strategies =
              (IF \E i \in 1..Len(target) : target[i] \in selector_chars
               THEN <<CSSSelector>> ELSE <<>>) \o C12_OrderFor(action_type)
        /\ Len(feTrace) <= Len(strategies)
        /\ TraceNames = SubSeq(strategies, 1, Len(feTrace))

\* Witness of C12: a type call on a target that looks like a selector has
\* attempted all six of its strategies, Placeholder after ARIA Label.
C12_Witness ==
    /\ fePc = "done"
    /\ action_type = "type"
    /\ looks_like_selector(target)
    /\ TraceNames = <<CSSSelector, ExactTextMatch, PartialTextMatch,
                      ARIALabel, Placeholder, XPath>>

\* ---------------------------------------------------------------------------
\* The last n entries of a list.
LastEntries(list, n) == SubSeq(list, Len(list) - n + 1, Len(list))

\* C13: a find_element call that returns, returns the element of the first
\* strategy, in the order of its strategies, whose attempt found one: every
\* strategy before it was attempted and found nothing, no strategy after it
\* is attempted, and the success is recorded under that strategy's name.
C13_FirstSuccessWins ==
    /\ fePc = "loop" => \A i \in 1..Len(feTrace) : feTrace[i].outcome # "element"
    /\ (fePc = "done" /\ feResult.how = "return") =>
          LET k == Len(feTrace) IN
          /\ k \in 1..Len(strategies)
          /\ feTrace[k].outcome = "element"
          /\ \A i \in 1..(k - 1) : feTrace[i].outcome \in {"falsy", "raise"}
          /\ TraceNames = SubSeq(strategies, 1, k)
          /\ LastEntries(attempted_strategies, k) = SubSeq(strategies, 1, k)
          /\ feResult.element = ElementOf(strategies[k])
          /\ LastEntries(successful_strategies, 1) = <<strategies[k]>>

\* Witness of C13: a click on a plain text target was resolved by the ARIA
\* label strategy after the exact text, partial text and both role
\* strategies had failed.
C13_Witness ==
    /\ fePc = "done"
    /\ action_type = "click"
    /\ ~looks_like_selector(target)
    /\ feResult.how = "return"
    /\ feResult.element = ElementOf(ARIALabel)
    /\ Len(feTrace) = 5
    /\ successful_strategies = <<ARIALabel>>

\* ---------------------------------------------------------------------------
\* C14: a find_element call in which no strategy finds an element, made after
\* any earlier calls on the same manager, raises an error whose list of
\* attempted strategies is exactly the list of strategies of this call, once
\* each, so that its length is the number of strategies.
C14_ListsCatalogOnce ==
    (fePc = "done" /\ feResult.how = "raise") =>
        /\ feResult.count = Len(strategies)
        /\ feResult.attempted = strategies
        /\ Len(feResult.attempted) = Len(strategies)

\* ---------------------------------------------------------------------------
\* C18: every attempt is recorded with its outcome: the attempts on record
\* are as many as the successes plus the failures on record, and no strategy
\* has more successes than attempts.
C18_AttemptsAccounted ==
    /\ total_attempts = total_successes + Len(failed_strategies)
    /\ \A s \in DOMAIN strategy_breakdown :
          strategy_breakdown[s].successes <= strategy_breakdown[s].attempts

\* ---------------------------------------------------------------------------
\* C16: smart_click raises ElementNotFoundError only after it has tried every
\* one of its strategies and every one of them failed; a failure of the
\* driver itself is raised as a connection or timeout error, never as
\* ElementNotFoundError.
C16_NotFoundOnlyAfterExhaustion ==
    (scPc = "done" /\ scResult.how = "raise") =>
        /\ scResult.kind = "ElementNotFoundError" =>
              /\ [i \in 1..Len(scTrace) |-> scTrace[i].name]
                    = click_strategies(text_or_selector)
              /\ \A i \in 1..Len(scTrace) : scTrace[i].outcome # "element"
        /\ scTrace = <<>> =>
              scResult.kind \in {"BrowserConnectionError", "TimeoutError"}

\* ---------------------------------------------------------------------------
\* C17: once a strategy has found an element, scrolling it into view is
\* failure-tolerant: whatever the scroll does, smart_click goes on to the
\* click with the same element and the same strategy, and raises nothing.
C17_ScrollTolerant ==
    [][(scPc = "scroll") =>
          (/\ scPc' = "click"
           /\ element' = element
           /\ strategy_used' = strategy_used
           /\ scResult' = NoClickResult)]_vars

\* ---------------------------------------------------------------------------
\* C21 as stated: whenever a loop-mode run has returned, self.terminate is
\* True, after a terminating Critique decision as well as after the forced
\* termination at max_iterations.
C21_Original == pc = "done" => terminate

\* C21, amended: a loop-mode run that has returned ended in one of two ways.
\* Either an in-loop Critique decision ended it, and then self.terminate is
\* True and no forced Critique call was made; or the iterations ran out,
\* the forced Critique call was made once, and self.terminate is still False
\* with iteration_counter >= max_iterations.
C21_ReturnedEitherWay ==
    pc = "done" =>
        \/ /\ terminate
           /\ critique_output.terminate
           /\ calls.forced = 0
        \/ /\ ~terminate
           /\ iteration_counter >= max_iterations
           /\ calls.forced = 1

\* Witness of C21: a run of two iterations ran out of iterations, made the
\* forced Critique call and returned with self.terminate still False.
C21_Witness ==
    /\ pc = "done"
    /\ ~terminate
    /\ max_iterations = 2
    /\ iteration_counter = 2
    /\ calls.forced = 1
    /\ Truthy(result)

\* ---------------------------------------------------------------------------
\* A call of role r returned a response in this step: its new messages were
\* appended to the history of r.
CallReturned(r) == Len(message_histories'[r]) > Len(message_histories[r])

\* The responses of role r carry a usage object with token counts.
ReportsUsage(r) == usage_of[r].kind = "tokens"

\* C22: a collaborator call of role r that returns with usage u adds u to
\* the three counters of r; in every other case the counters of a role stay
\* as they are, so the counters of the other roles are unchanged and no
\* counter decreases or is reset, within a run or between runs.
C22_UsageAdditive ==
    [][\A r \in Roles :
          IF CallReturned(r) /\ ReportsUsage(r)
          THEN /\ cumulative_tokens'[r].total =
                      cumulative_tokens[r].total + usage_of[r].total_tokens
               /\ cumulative_tokens'[r].request =
                      cumulative_tokens[r].request + usage_of[r].request_tokens
               /\ cumulative_tokens'[r].response =
                      cumulative_tokens[r].response + usage_of[r].response_tokens
          ELSE cumulative_tokens'[r] = cumulative_tokens[r]]_vars

\* Witness of C22: in the second iteration of a run, two Planner calls and
\* one Browser call have been counted, the second Planner call on top of
\* the first.
C22_Witness ==
    /\ pc = "act"
    /\ iteration_counter = 2
    /\ cumulative_tokens["planner"] = [total |-> 10, request |-> 6, response |-> 4]
    /\ cumulative_tokens["browser"] = [total |-> 7, request |-> 4, response |-> 3]
    /\ cumulative_tokens["critique"] = [total |-> 3, request |-> 2, response |-> 1]

(***************************************************************************)
(* C23: for every attempt index i >= 0 and every RetryConfig with          *)
(* base_delay >= 0, the delay before jitter,                               *)
(* min(base_delay * exponential_base ** i, max_delay), is at most          *)
(* max_delay, and the delay get_delay returns after jitter is at least 0.  *)
(***************************************************************************)
C23_DelayBounded ==
    (gdPc = "done" /\ base_delay >= 0 /\ gdAttempt >= 0)
        => /\ gdDelay.pre <= QuartersPerSecond * max_delay
           /\ gdDelay.value >= 0

\* get_delay has returned for an attempt whose exponential delay exceeds
\* max_delay, with jitter on and the lowest draw.
C23_Witness ==
    /\ gdPc = "done"
    /\ base_delay >= 1
    /\ gdAttempt >= 1
    /\ base_delay * Pow(exponential_base, gdAttempt) > max_delay
    /\ max_delay >= 1
    /\ jitter
    /\ gdDraw = -1
    /\ gdDelay.value = 3 * max_delay

(***************************************************************************)
(* C24: the synchronous and the asynchronous retry wrappers are            *)
(* equivalent: with the same RetryConfig, the same exceptions tuple, the   *)
(* same outcomes of the invocations and the same random draws, both are    *)
(* always at the same point, have made the same invocations, have waited   *)
(* the same delays, and end with the same result or exception.             *)
(***************************************************************************)
C24_SyncAsyncEquivalent ==
    /\ aPc = rPc
    /\ aAttempt = attempt
    /\ Len(aOutcomes) = Len(outcomes)
    /\ aOutcomes = outcomes
    /\ aDelays = delays
    /\ aLastException = last_exception
    /\ aSurfaced = surfaced

\* Both wrappers have finished after two waits of different length, the
\* third invocation having returned.
C24_Witness ==
    /\ rPc = "done"
    /\ aPc = "done"
    /\ Len(outcomes) = 3
    /\ Len(aDelays) = 2
    /\ aDelays[1] # aDelays[2]
    /\ aSurfaced = [how |-> "return", value |-> "ok"]

(***************************************************************************)
(* C25: a run without use_multi_agent bypasses the loop: it makes exactly  *)
(* one Browser agent call, with the user query as its prompt, makes no     *)
(* Planner and no Critique call, and no step of it changes                 *)
(* iteration_counter, terminate, current_plan, a message history or a      *)
(* token counter.                                                          *)
(***************************************************************************)
C25_SingleShot ==
    /\ [](pc \in {"single", "done", "raised"}
            => /\ calls = [NoCalls EXCEPT !.act = 1]
               /\ user_prompt = user_query)
    /\ [][(pc \in {"idle", "single"})
            => UNCHANGED <<iteration_counter, terminate, current_plan,
                           message_histories, cumulative_tokens>>]_vars

\* A single-agent run has returned the agent's output, in an orchestrator
\* whose Browser agent reports usage.
C25_Witness ==
    /\ ~use_multi_agent
    /\ pc = "done"
    /\ usage_of["browser"].kind = "tokens"
    /\ user_prompt = <<"find the price">>
    /\ result = <<"tool output">>
    /\ calls.act = 1
    /\ cumulative_tokens = NoTokens

(***************************************************************************)
(* C26: when the Browser agent raises during an iteration, the error does  *)
(* not reach the caller: the step that ends the Act call always hands a    *)
(* tool response to the Critique call of the same iteration, which is the  *)
(* agent's output or else the failure text, and the decision of that       *)
(* Critique call ends or continues the loop after a failed Act call just   *)
(* as after a successful one.                                              *)
(***************************************************************************)
C26_ActFailureNarrated ==
    [][/\ (pc = "act") =>
            (/\ pc' = "critique"
             /\ tool_response' \in ToolTexts \cup {BrowserErrorText}
             /\ iteration_counter' = iteration_counter
             /\ calls'.critique = calls.critique + 1
             /\ calls'.act = calls.act
             /\ result' = result)
       /\ (pc = "critique" /\ pc' # "raised") =>
            (/\ tool_response' = tool_response
             /\ terminate' = critique_output'.terminate
             /\ pc' = (IF critique_output'.terminate THEN "after" ELSE "while")
             /\ feedback' = critique_output'.feedback
             /\ (critique_output'.terminate
                    => final_response' = critique_output'.final_response))]_vars

\* The Act call of iteration 1 raised, the Critique call of iteration 1 was
\* given the failure text and decided to terminate, and the run returned.
C26_Witness ==
    /\ pc = "done"
    /\ tool_response = BrowserErrorText
    /\ iteration_counter = 1
    /\ calls = [plan |-> 1, act |-> 1, critique |-> 1, forced |-> 0]
    /\ terminate
    /\ critique_output.terminate
    /\ result = <<"answer1">>

\* ---------------------------------------------------------------------------
\* C27: in smart_click, a strategy attempt that fails with any kind of
\* error, a timeout or another driver error, does not end the resolution:
\* the next strategy in order is attempted, and the call fails only once the
\* last strategy has been attempted.
C27_AnyErrorMovesOn ==
    [][(/\ scPc = "find"
        /\ Len(scTrace') = Len(scTrace) + 1
        /\ scTrace'[Len(scTrace')].outcome # "element") =>
          (IF scIndex < Len(click_strategies(text_or_selector))
           THEN /\ scPc' = "find"
                /\ scIndex' = scIndex + 1
                /\ scResult' = NoClickResult
           ELSE /\ scPc' = "done"
                /\ scResult'.how = "raise")]_vars

\* ---------------------------------------------------------------------------
\* C28: reset() leaves the orchestrator as __init__ left it: iteration_counter
\* 0, terminate False, no current_plan, an empty message history for every
\* role and every token counter at 0.
C28_ResetEqualsFresh ==
    [][(pc \in {"done", "raised"} /\ pc' = "idle") =>
          (/\ iteration_counter' = 0
           /\ terminate' = FALSE
           /\ current_plan' = None
           /\ message_histories' = NoHistories
           /\ cumulative_tokens' = NoTokens)]_vars

\* ---------------------------------------------------------------------------
\* C29: with overlapping calls through one breaker, once the state is open it
\* stays open with failure_count unchanged until a call admitted after the
\* recovery time has passed; and the breaker leaves open or half-open for
\* closed only when such a call, admitted as the half-open trial, returns.
\* The return of a call admitted while the breaker was closed does not close
\* an open breaker.
C29_StaleSuccessKeepsOpen ==
    [][/\ (state = "open") =>
            (/\ failure_count' = failure_count
             /\ \/ state' = "open"
                \/ state' = "half-open" /\ RecoveryElapsed)
       /\ (state # "closed" /\ state' = "closed") =>
            (\E c \in Callers :
                /\ inflight[c].pc = "running"
                /\ inflight[c].admitted = "half-open"
                /\ inflight'[c].outcome = "returned")]_vars

\* ---------------------------------------------------------------------------
\* C30: however the start_monitoring and stop_monitoring calls of one caller
\* fall between the steps of the background thread, at most one thread of
\* the monitor is running _monitor_loop at any time, and once stop_monitoring
\* has returned nothing is appended to metrics_history until the next
\* start_monitoring.
C30_OneLoopNoLateSample ==
    /\ [](Cardinality(Running) <= 1)
    /\ [][Stopped => (appended' = appended /\ metrics_history' = metrics_history)]_vars

====
